---- MODULE Spec2Model ----
(***************************************************************************)
(* LogisPLAN: model of the ledger sink (database.py), of the "Importar     *)
(* Todo" orchestrator (importar_todo.py), of the two single-purpose import *)
(* pages (app.py) and of the categorization rule engine (importador.py).   *)
(***************************************************************************)
EXTENDS Integers, Sequences, FiniteSets, TLC

VARIABLES
    db,       \* the SQLite database: tables, sqlite_sequence counters, unique index
    origen,   \* how the database file came to be: "nueva" or "heredada"
    ult,      \* the last database call: name, batch, counts returned, repeated or not
    sesion,   \* st.session_state of the "Importar Todo" page, and what its last run showed
    verif,    \* the hashes and names compared against the import history in this session
    cat,      \* the categorization engine: rule table, input row, output row
    calc      \* the last call of a parser or helper: name, arguments, result

vars == <<db, origen, ult, sesion, verif, cat, calc>>

NULL == "NULL"

\* ------------------------------------------------------------------ bounds

\* Longest list of movements handed to one insertar_movimientos call.
MaxBatch == 2
\* Import records (ids of importaciones) the model lets the database issue.
MaxImportaciones == 2

\* The keys (fecha, descripcion, importe) the movements are drawn from.
Claves ==
    {[fecha |-> 1, descripcion |-> "A", importe |-> -5],
     [fecha |-> 2, descripcion |-> "A", importe |-> 5]}

\* ------------------------------------------------------------------ ledger

Clave(m) == [fecha |-> m.fecha, descripcion |-> m.descripcion, importe |-> m.importe]

ClavesDe(movs) == {Clave(r) : r \in movs}

\* A movement as the parsers hand it to the sink.
MovsEntrada ==
    {[fecha |-> k.fecha, descripcion |-> k.descripcion, importe |-> k.importe,
      categoria_id |-> "OTRO", vehiculo_id |-> NULL] : k \in Claves}

SeqsHasta(S, n) == UNION {[1 .. k -> S] : k \in 0 .. n}

Batches == SeqsHasta(MovsEntrada, MaxBatch)

\* CREATE UNIQUE INDEX ... ON movimientos(fecha, descripcion, importe) succeeds
\* exactly when no two rows share the key.
SinDuplicados(movs) ==
    \A r1, r2 \in movs : Clave(r1) = Clave(r2) => r1.id = r2.id

crear_indice_unico(d) ==
    [d EXCEPT !.tiene_indice = d.tiene_indice \/ SinDuplicados(d.movimientos)]

init_database(d) == crear_indice_unico(d)

\* SELECT COUNT(*) FROM movimientos WHERE fecha = ? AND descripcion = ? AND importe = ?
\* (the same three columns the unique index is built on).
ExisteClaveConCategoria(movs, mov) ==
    \E r \in movs : Clave(r) = Clave(mov) /\ r.categoria_id = mov.categoria_id
ExisteClave(movs, mov) == \E r \in movs : Clave(r) = Clave(mov)

FilaMovimiento(id, mov, importacion_id) ==
    [id |-> id, fecha |-> mov.fecha, descripcion |-> mov.descripcion,
     importe |-> mov.importe, categoria_id |-> mov.categoria_id,
     vehiculo_id |-> mov.vehiculo_id, importacion_id |-> importacion_id]

\* INSERT OR IGNORE INTO movimientos: with the unique index a row whose key is
\* present is ignored (rowcount 0); without the index every row is inserted.
InsertOrIgnoreSinIndice(movs, tiene_indice, mov) == TRUE
InsertOrIgnore(movs, tiene_indice, mov) ==
    ~(tiene_indice /\ ExisteClave(movs, mov))

\* The manual existence check made for each row when the index is missing.
VerificacionManualOmitida(movs, tiene_indice, mov) == FALSE
VerificacionManual(movs, tiene_indice, mov) ==
    ~tiene_indice /\ ExisteClave(movs, mov)

\* The loop of insertar_movimientos over the batch, from position i on.
\* st = [movs, seq, insertados, duplicados].
RECURSIVE BucleInsercion(_, _, _, _, _)
BucleInsercion(tiene_indice, batch, i, importacion_id, st) ==
    IF i > Len(batch) THEN st
    ELSE LET mov == batch[i] IN
         IF VerificacionManual(st.movs, tiene_indice, mov)
         THEN BucleInsercion(tiene_indice, batch, i + 1, importacion_id,
                             [st EXCEPT !.duplicados = @ + 1])
         ELSE IF InsertOrIgnore(st.movs, tiene_indice, mov)
              THEN BucleInsercion(tiene_indice, batch, i + 1, importacion_id,
                       [movs |-> st.movs \cup
                                 {FilaMovimiento(st.seq + 1, mov, importacion_id)},
                        seq |-> st.seq + 1,
                        insertados |-> st.insertados + 1,
                        duplicados |-> st.duplicados])
              ELSE BucleInsercion(tiene_indice, batch, i + 1, importacion_id,
                                  [st EXCEPT !.duplicados = @ + 1])

FilaImportacion(id, archivo_nombre, num, tipo, hash_archivo) ==
    [id |-> id, archivo_nombre |-> archivo_nombre, num_movimientos |-> num,
     tipo |-> tipo, hash_archivo |-> hash_archivo]

\* insertar_movimientos: one transaction that writes the import record and the
\* rows of the batch. Result: the database after the commit and the returned dict.
insertar_movimientos(d, batch, archivo_nombre, tipo, hash_archivo) ==
    LET importacion_id == d.seq_importaciones + 1
        fin == BucleInsercion(d.tiene_indice, batch, 1, importacion_id,
                              [movs |-> d.movimientos, seq |-> d.seq_movimientos,
                               insertados |-> 0, duplicados |-> 0])
    IN [db |-> [d EXCEPT
                  !.importaciones = @ \cup
                      {FilaImportacion(importacion_id, archivo_nombre,
                                       Len(batch), tipo, hash_archivo)},
                  !.seq_importaciones = importacion_id,
                  !.movimientos = fin.movs,
                  !.seq_movimientos = fin.seq],
        importacion_id |-> importacion_id,
        insertados |-> fin.insertados,
        duplicados |-> fin.duplicados]

\* DELETE FROM movimientos WHERE id NOT IN (SELECT MIN(id) ... GROUP BY key).
ConservadosCualquiera(movs) ==
    {r \in movs : \A o \in movs : Clave(o) = Clave(r) => o.id <= r.id}
Conservados(movs) ==
    {r \in movs : \A o \in movs : Clave(o) = Clave(r) => r.id <= o.id}

limpiar_duplicados_existentes(d) ==
    LET quedan == Conservados(d.movimientos)
        limpio == [d EXCEPT !.movimientos = quedan]
    IN [db |-> crear_indice_unico(limpio),
        eliminados |-> Cardinality(d.movimientos \ quedan)]

actualizar_movimiento(d, id, categoria_id, vehiculo_id) ==
    [d EXCEPT !.movimientos =
        {IF r.id = id
         THEN [r EXCEPT !.categoria_id = categoria_id, !.vehiculo_id = vehiculo_id]
         ELSE r : r \in @}]

eliminar_movimientos(d, ids) ==
    [d EXCEPT !.movimientos = {r \in @ : r.id \notin ids}]

\* The import record deleted and its movements left in the ledger.
eliminar_importacion_SoloRegistro(d, importacion_id) ==
    [d EXCEPT !.importaciones = {r \in @ : r.id # importacion_id}]

eliminar_importacion(d, importacion_id) ==
    [d EXCEPT !.movimientos = {r \in @ : r.importacion_id # importacion_id},
              !.importaciones = {r \in @ : r.id # importacion_id}]

\* ------------------------------------------------------- database at start

BaseVacia ==
    [movimientos |-> {}, importaciones |-> {}, costes_laborales |-> {},
     seq_movimientos |-> 0, seq_importaciones |-> 0, seq_costes |-> 0,
     tiene_indice |-> FALSE, hojas_ruta |-> {}, seq_hojas |-> 0]

\* A database file written before the index existed: the rows of one batch, with
\* any keys, and no import record (importacion_id 0 stands for SQL NULL; ids
\* start at 1).
BasesHeredadas ==
    {[BaseVacia EXCEPT
        !.movimientos = {FilaMovimiento(i, f[i], 0) : i \in 1 .. Len(f)},
        !.seq_movimientos = Len(f)] :
     f \in Batches \ {<<>>}}

SinLlamada ==
    [op |-> "ninguna", batch |-> <<>>, insertados |-> 0, duplicados |-> 0,
     eliminados |-> 0, repite |-> FALSE]

\* What the last call was and returned; repite: it was insertar_movimientos with
\* the batch of the insertar_movimientos call right before it.
Registro(op, batch, ins, dup, elim) ==
    [op |-> op, batch |-> batch, insertados |-> ins, duplicados |-> dup,
     eliminados |-> elim,
     repite |-> (op = "insertar_movimientos" /\ ult.op = op /\ ult.batch = batch)]

SinInforme == [traza |-> <<>>, exitos |-> 0, errores |-> <<>>]

\* importar_todo_archivos, importar_todo_nombres, and the messages of the last run.
SesionVacia == [archivos |-> <<>>, nombres |-> {}, informe |-> SinInforme]

SinVerificar == [hashes |-> {}, nombres |-> {}]

SinCalculo == [op |-> "ninguna"]

\* ------------------------------------------------------- the rule engine

\* Longest description of a movement, and most rules ever configured (ids of
\* the table reglas) in the model.
MaxDescripcion == 2
MaxReglas == 3

\* Text is a sequence of characters over a three-letter alphabet: "L" and "I"
\* stand for the words of the initial rules ("LEAS:", "IVECO"), "l" is a lower
\* case letter.
Letras == {"I", "L", "l"}

\* The code point of a character: BINARY collation compares these.
Codigo(c) == CASE c = "I" -> 73 [] c = "L" -> 76 [] OTHER -> 108

\* str.upper()
Mayuscula(c) == IF c = "l" THEN "L" ELSE c
upper(t) == [i \in DOMAIN t |-> Mayuscula(t[i])]

\* patron in descripcion
EsSubcadena(patron, descripcion) ==
    \E i \in 0 .. (Len(descripcion) - Len(patron)) :
        SubSeq(descripcion, i + 1, i + Len(patron)) = patron

\* a < b in SQLite's default collation: byte-wise, a proper prefix comes first.
RECURSIVE MenorTexto(_, _)
MenorTexto(a, b) ==
    IF b = <<>> THEN FALSE
    ELSE IF a = <<>> THEN TRUE
    ELSE IF Codigo(Head(a)) # Codigo(Head(b)) THEN Codigo(Head(a)) < Codigo(Head(b))
    ELSE MenorTexto(Tail(a), Tail(b))

PorId(r, o) == r.id < o.id
PorPatron(r, o) == MenorTexto(r.patron, o.patron)

\* SELECT ... FROM reglas r WHERE r.activa = 1 ORDER BY r.patron
get_reglas(reglas) ==
    LET activas == {r \in reglas : r.activa} IN
    [i \in 1 .. Cardinality(activas) |->
        CHOOSE r \in activas : Cardinality({o \in activas : PorPatron(o, r)}) = i - 1]

\* The first rule of the list whose upper-cased pattern is in the description;
\* 0 when there is none.
PrimeraCoincidencia(reglas, descripcion) ==
    LET hay == {i \in DOMAIN reglas : EsSubcadena(upper(reglas[i].patron), descripcion)}
    IN IF hay = {} THEN 0 ELSE CHOOSE i \in hay : \A j \in hay : i <= j

\* The fallback without its review flag.
auto_categorizar_SinRevisar(reglas_df, fila) ==
    LET i == PrimeraCoincidencia(reglas_df, upper(fila.descripcion)) IN
    IF i # 0
    THEN [categoria_id |-> reglas_df[i].categoria_id,
          vehiculo_id |-> reglas_df[i].vehiculo_id,
          necesita_revision |-> (fila.importe < 0
                                 /\ reglas_df[i].vehiculo_id = NULL
                                 /\ reglas_df[i].categoria_id # "INGRESO")]
    ELSE [categoria_id |-> IF fila.importe > 0 THEN "INGRESO" ELSE "OTRO",
          vehiculo_id |-> NULL,
          necesita_revision |-> FALSE]

\* auto_categorizar on one row of the frame.
auto_categorizar(reglas_df, fila) ==
    LET descripcion == upper(fila.descripcion)
        i == PrimeraCoincidencia(reglas_df, descripcion)
    IN IF i # 0
       THEN [categoria_id |-> reglas_df[i].categoria_id,
             vehiculo_id |-> reglas_df[i].vehiculo_id,
             necesita_revision |-> (fila.importe < 0
                                    /\ reglas_df[i].vehiculo_id = NULL
                                    /\ reglas_df[i].categoria_id # "INGRESO")]
       ELSE [categoria_id |-> IF fila.importe > 0 THEN "INGRESO" ELSE "OTRO",
             vehiculo_id |-> NULL,
             necesita_revision |-> TRUE]

\* categorias.tipo of the categories of _insertar_datos_iniciales: INGRESO is the
\* only one of kind INGRESO, all the others are of kind GASTO.
TipoCategoria(categoria_id) == IF categoria_id = "INGRESO" THEN "INGRESO" ELSE "GASTO"

FilaRegla(id, patron, categoria_id, vehiculo_id, activa) ==
    [id |-> id, patron |-> patron, categoria_id |-> categoria_id,
     vehiculo_id |-> vehiculo_id, activa |-> activa]

\* INSERT OR REPLACE INTO reglas (..., activa) VALUES (?, ?, ?, 1): the rule of
\* the same pattern, if any, gives way to a new row with a new id.
agregar_regla(c, patron, categoria_id, vehiculo_id) ==
    [c EXCEPT !.reglas = {r \in @ : r.patron # patron} \cup
                            {FilaRegla(c.seq + 1, patron, categoria_id,
                                       vehiculo_id, TRUE)},
              !.seq = @ + 1]

\* UPDATE reglas SET activa = 0 WHERE id = ?
eliminar_regla(c, regla_id) ==
    [c EXCEPT !.reglas = {IF r.id = regla_id THEN [r EXCEPT !.activa = FALSE] ELSE r
                            : r \in @}]

\* The rules that _insertar_datos_iniciales configures, in its order: the
\* leasing rule ("LEAS:", "LEAS", "LVX") comes before the workshop rule
\* ("IVECO", "TALL", None).
ReglasIniciales ==
    <<[patron |-> <<"L">>, categoria_id |-> "LEAS", vehiculo_id |-> "LVX"],
      [patron |-> <<"I">>, categoria_id |-> "TALL", vehiculo_id |-> NULL]>>

SinFila == [descripcion |-> <<>>, importe |-> 0]
SinSalida == [categoria_id |-> NULL, vehiculo_id |-> NULL, necesita_revision |-> FALSE]

CatInicial ==
    [fase |-> "espera",
     reglas |-> {FilaRegla(i, ReglasIniciales[i].patron, ReglasIniciales[i].categoria_id,
                           ReglasIniciales[i].vehiculo_id, TRUE)
                   : i \in DOMAIN ReglasIniciales},
     seq |-> Len(ReglasIniciales),
     entrada |-> SinFila,
     salida |-> SinSalida]

\* ------------------------------------------------ specification: the ledger

\* app.py runs init_database() when the module is loaded: the index exists at
\* start unless the file already holds duplicate keys.
InitLibro ==
    /\ \/ origen = "nueva" /\ db = init_database(BaseVacia)
       \/ origen = "heredada" /\ \E d \in BasesHeredadas : db = init_database(d)
    /\ ult = SinLlamada
    /\ sesion = SesionVacia
    /\ verif = SinVerificar
    /\ cat = CatInicial
    /\ calc = SinCalculo

Do_init_database ==
    /\ db' = init_database(db)
    /\ ult' = Registro("init_database", <<>>, 0, 0, 0)
    /\ UNCHANGED <<origen, sesion, verif, cat, calc>>

Do_insertar_movimientos ==
    /\ db.seq_importaciones < MaxImportaciones
    /\ \E batch \in Batches :
         LET r == insertar_movimientos(db, batch, "manual", NULL, NULL) IN
         /\ db' = r.db
         /\ ult' = Registro("insertar_movimientos", batch,
                            r.insertados, r.duplicados, 0)
    /\ UNCHANGED <<origen, sesion, verif, cat, calc>>

Do_limpiar_duplicados_existentes ==
    /\ LET r == limpiar_duplicados_existentes(db) IN
         /\ db' = r.db
         /\ ult' = Registro("limpiar_duplicados_existentes", <<>>,
                            0, 0, r.eliminados)
    /\ UNCHANGED <<origen, sesion, verif, cat, calc>>

\* The rows the user edits or deletes one by one in the records page.
IdsElegibles == 1 .. MaxBatch

Do_actualizar_movimiento ==
    /\ \E r \in {x \in db.movimientos : x.id \in IdsElegibles} :
         /\ db' = actualizar_movimiento(db, r.id, "COMB", "MTY")
         /\ ult' = Registro("actualizar_movimiento", <<>>, 0, 0, 0)
    /\ UNCHANGED <<origen, sesion, verif, cat, calc>>

Do_eliminar_movimientos ==
    /\ \E r \in {x \in db.movimientos : x.id \in IdsElegibles} :
         /\ db' = eliminar_movimientos(db, {r.id})
         /\ ult' = Registro("eliminar_movimientos", <<>>, 0, 0, 0)
    /\ UNCHANGED <<origen, sesion, verif, cat, calc>>

Do_eliminar_importacion ==
    /\ \E i \in db.importaciones :
         /\ db' = eliminar_importacion(db, i.id)
         /\ ult' = Registro("eliminar_importacion", <<>>, 0, 0, 0)
    /\ UNCHANGED <<origen, sesion, verif, cat, calc>>

NextLibro ==
    \/ Do_init_database
    \/ Do_insertar_movimientos
    \/ Do_limpiar_duplicados_existentes
    \/ Do_actualizar_movimiento
    \/ Do_eliminar_movimientos
    \/ Do_eliminar_importacion

Spec == InitLibro /\ [][NextLibro]_vars

\* ------------------------------------------------------ claims on the ledger

FilasNuevas == db'.movimientos \ db.movimientos

\* C1: a second insertar_movimientos call with the batch of the call right before
\* it leaves the rows of movimientos as the first call left them, and returns
\* insertados = 0 and duplicados = len(batch).
C1_ReimportacionIdempotente ==
    [][(ult'.op = "insertar_movimientos" /\ ult'.repite) =>
          /\ db'.movimientos = db.movimientos
          /\ ult'.insertados = 0
          /\ ult'.duplicados = Len(ult'.batch)]_vars

\* C1 witness: a batch of two movements was imported twice in a row, and rows of
\* the first of the two imports are in the ledger.
C1_Testigo ==
    /\ ult.op = "insertar_movimientos"
    /\ ult.repite
    /\ Len(ult.batch) = 2
    /\ \E r \in db.movimientos : r.importacion_id = db.seq_importaciones - 1

\* C2: from the empty ledger created by init_database, no two rows of movimientos
\* ever share (fecha, descripcion, importe).
C2_ClaveUnica ==
    origen = "nueva" =>
        \A r1, r2 \in db.movimientos :
            r1 # r2 =>
                \/ r1.fecha # r2.fecha
                \/ r1.descripcion # r2.descripcion
                \/ r1.importe # r2.importe

\* C2 witness: a ledger that started empty holds two rows and its last insert
\* refused a movement as a duplicate.
C2_Testigo ==
    /\ origen = "nueva"
    /\ Cardinality(db.movimientos) >= 2
    /\ ult.op = "insertar_movimientos"
    /\ ult.duplicados > 0

\* C3: without idx_movimientos_unique, insertar_movimientos inserts no row whose
\* key is in the ledger or was inserted earlier in the batch, inserts every new
\* key exactly once, counts every movement as inserted or duplicate, and ends
\* with the set of keys the indexed path produces.
C3_InsercionSinIndice ==
    [][(ult'.op = "insertar_movimientos" /\ ~db.tiene_indice) =>
          /\ db.movimientos \subseteq db'.movimientos
          /\ \A r \in FilasNuevas : Clave(r) \notin ClavesDe(db.movimientos)
          /\ \A r1, r2 \in FilasNuevas : Clave(r1) = Clave(r2) => r1 = r2
          /\ \A i \in 1 .. Len(ult'.batch) :
                Clave(ult'.batch[i]) \notin ClavesDe(db.movimientos) =>
                    \E r \in FilasNuevas : Clave(r) = Clave(ult'.batch[i])
          /\ ult'.insertados = Cardinality(FilasNuevas)
          /\ ult'.insertados + ult'.duplicados = Len(ult'.batch)
          /\ ClavesDe(db'.movimientos) =
                ClavesDe(insertar_movimientos([db EXCEPT !.tiene_indice = TRUE],
                            ult'.batch, "manual", NULL, NULL).db.movimientos)]_vars

\* C3 witness: in a ledger without the index, a batch that names the same new
\* key twice was inserted: one row inserted, one movement counted as duplicate.
C3_Testigo ==
    /\ ult.op = "insertar_movimientos"
    /\ ~db.tiene_indice
    /\ Len(ult.batch) = 2
    /\ Clave(ult.batch[1]) = Clave(ult.batch[2])
    /\ ult.insertados = 1
    /\ ult.duplicados = 1

FilasDeClave(movs, k) == {r \in movs : Clave(r) = k}

\* C4: after limpiar_duplicados_existentes every key that had a row has exactly
\* one, the one of lowest id; rows of keys that were not duplicated are unchanged;
\* the returned number is rows before minus rows after; the unique index exists.
C4_PurgaDuplicados ==
    [][ult'.op = "limpiar_duplicados_existentes" =>
          /\ db'.movimientos \subseteq db.movimientos
          /\ \A k \in ClavesDe(db.movimientos) :
                /\ Cardinality(FilasDeClave(db'.movimientos, k)) = 1
                /\ \A r \in FilasDeClave(db'.movimientos, k) :
                      \A o \in FilasDeClave(db.movimientos, k) : r.id <= o.id
          /\ \A r \in db.movimientos :
                Cardinality(FilasDeClave(db.movimientos, Clave(r))) = 1 =>
                    r \in db'.movimientos
          /\ ult'.eliminados =
                Cardinality(db.movimientos) - Cardinality(db'.movimientos)
          /\ db'.tiene_indice]_vars

\* C4 witness: a purge that deleted at least one duplicate row.
C4_Testigo ==
    /\ ult.op = "limpiar_duplicados_existentes"
    /\ ult.eliminados > 0
    /\ db.tiene_indice

\* --------------------------------------------------- "Importar Todo": files

\* Longest preview list (importar_todo_archivos) the model lets the session hold.
MaxArchivos == 2

\* Most payroll rows (ids of costes_laborales) the model lets the database issue.
MaxCostes == 2

\* What the parsers read out of each file content of the model.
\*   csv1: a bank CSV with one row           csv0: a CSV with no usable row
\*   fac1: a StarOil invoice, one vehicle    fac0: a StarOil invoice, no line parsed
\*   facx: a PDF whose text holds no provider signature
\*   nom1: a payroll summary with one worker
Contenido(c) ==
    CASE c = "csv1" ->
           [formato |-> "csv", proveedor |-> NULL, errores |-> FALSE, costes |-> <<>>,
            filas |-> <<[fecha |-> 1, descripcion |-> "A", importe |-> -5,
                         categoria_id |-> "OTRO", vehiculo_id |-> NULL,
                         necesita_revision |-> TRUE]>>]
      [] c = "csv0" ->
           [formato |-> "csv", proveedor |-> NULL, errores |-> FALSE, costes |-> <<>>,
            filas |-> <<>>]
      [] c = "fac1" ->
           [formato |-> "pdf", proveedor |-> "STAROIL", errores |-> FALSE,
            costes |-> <<>>,
            filas |-> <<[vehiculo |-> "MTY", importe_neto |-> 5]>>]
      [] c = "fac0" ->
           [formato |-> "pdf", proveedor |-> "STAROIL", errores |-> TRUE,
            costes |-> <<>>, filas |-> <<>>]
      [] c = "facx" ->
           [formato |-> "pdf", proveedor |-> NULL, errores |-> TRUE,
            costes |-> <<>>, filas |-> <<>>]
      [] OTHER ->
           [formato |-> "pdf", proveedor |-> NULL, errores |-> FALSE, filas |-> <<>>,
            costes |-> <<[mes |-> "2024-01", trabajador_id |-> 1, coste_total |-> 9]>>]

\* The files the user can upload: b.csv holds the bytes of a.csv; the second
\* a.csv is another file that carries the name of the first.
Archivos ==
    {[nombre |-> "a.csv", contenido |-> "csv1"],
     [nombre |-> "b.csv", contenido |-> "csv1"],
     [nombre |-> "a.csv", contenido |-> "csv0"],
     [nombre |-> "f.pdf", contenido |-> "fac1"],
     [nombre |-> "g.pdf", contenido |-> "fac0"],
     [nombre |-> "h.pdf", contenido |-> "facx"],
     [nombre |-> "COST_202401.pdf", contenido |-> "nom1"]}

\* nombre.lower().endswith('.csv') / ('.pdf'), and re.search(r'COST[\s_-]+(\d{6})').
EsCsv(nombre) == nombre \in {"a.csv", "b.csv"}
EsPdf(nombre) == nombre \in {"f.pdf", "g.pdf", "h.pdf", "COST_202401.pdf"}
TieneCostMes(nombre) == nombre = "COST_202401.pdf"

\* SHA-256 of the bytes: equal for equal bytes, and taken to be collision free.
calcular_hash(contenido) == "sha256:" \o contenido

TiposMovimientos ==
    {"EXTRACTO_ABANCA", "FACTURA_STAROIL", "FACTURA_SOLRED",
     "FACTURA_VALCARCE_COMB", "FACTURA_VALCARCE_PEAJES"}

TiposFactura == TiposMovimientos \ {"EXTRACTO_ABANCA"}

\* parsed_data = None.
SinDatos == [ninguno |-> TRUE]

SinTipo == [tipo |-> NULL, error |-> TRUE, parsed_data |-> SinDatos]

\* detectar_tipo_archivo: the document type, whether an error text was set, and
\* the parsed data kept for the import.
detectar_tipo_archivo(contenido, nombre) ==
    LET c == Contenido(contenido) IN
    IF EsCsv(nombre)
    THEN IF c.formato = "csv" /\ c.filas # <<>>
         THEN [tipo |-> "EXTRACTO_ABANCA", error |-> FALSE,
               parsed_data |-> [df |-> c.filas]]
         ELSE SinTipo
    ELSE IF ~EsPdf(nombre) \/ c.formato # "pdf"
    THEN SinTipo
    ELSE IF TieneCostMes(nombre)
    THEN IF c.errores
         THEN [tipo |-> "COSTES_LABORALES", error |-> TRUE, parsed_data |-> SinDatos]
         ELSE [tipo |-> "COSTES_LABORALES", error |-> FALSE,
               parsed_data |-> [resultados |-> c.costes]]
    ELSE IF c.proveedor = "STAROIL"
    THEN [tipo |-> "FACTURA_STAROIL", error |-> c.errores,
          parsed_data |-> [proveedor |-> c.proveedor, errores |-> c.errores,
                           resumen_vehiculos |-> c.filas]]
    ELSE SinTipo

\* SELECT ... FROM importaciones WHERE hash_archivo = ? / WHERE archivo_nombre = ?
verificar_hash_duplicado(d, hash_archivo) ==
    \E r \in d.importaciones : r.hash_archivo = hash_archivo
verificar_nombre_duplicado(d, archivo_nombre) ==
    \E r \in d.importaciones : r.archivo_nombre = archivo_nombre

\* The three-way state of a file in the preview list.
EstadoDuplicadoPrimero(tipo_info, es_duplicado) ==
    IF es_duplicado THEN "duplicado"
    ELSE IF tipo_info.error /\ tipo_info.tipo = NULL THEN "error"
    ELSE "nuevo"
Estado(tipo_info, es_duplicado) ==
    IF tipo_info.error /\ tipo_info.tipo = NULL THEN "error"
    ELSE IF es_duplicado THEN "duplicado"
    ELSE "nuevo"

\* The entry appended to importar_todo_archivos for one uploaded file.
AnalizarArchivo(d, archivo) ==
    LET file_hash == calcular_hash(archivo.contenido)
        tipo_info == detectar_tipo_archivo(archivo.contenido, archivo.nombre)
        dup_hash == verificar_hash_duplicado(d, file_hash)
        dup_nombre == verificar_nombre_duplicado(d, archivo.nombre)
        es_duplicado == dup_hash \/ dup_nombre
        estado == Estado(tipo_info, es_duplicado)
    IN [nombre |-> archivo.nombre, hash |-> file_hash, tipo |-> tipo_info.tipo,
        error |-> tipo_info.error, parsed_data |-> tipo_info.parsed_data,
        estado |-> estado, es_duplicado |-> es_duplicado,
        dup_info |-> IF dup_hash THEN "hash"
                     ELSE IF dup_nombre THEN "nombre" ELSE NULL,
        seleccionado |-> (estado = "nuevo")]

\* ------------------------------------------- "Importar Todo": persistence

\* INSERT OR REPLACE INTO costes_laborales, UNIQUE(mes, trabajador_id): the row of
\* the same month and worker, if any, is deleted and the new one gets a new id.
RECURSIVE BucleCostes(_, _, _)
BucleCostes(costes, i, st) ==
    IF i > Len(costes) THEN st
    ELSE LET c == costes[i]
             otras == {r \in st.filas : r.mes # c.mes \/ r.trabajador_id # c.trabajador_id}
         IN BucleCostes(costes, i + 1,
                [filas |-> otras \cup
                             {[id |-> st.seq + 1, mes |-> c.mes,
                               trabajador_id |-> c.trabajador_id,
                               coste_total |-> c.coste_total]},
                 seq |-> st.seq + 1])

\* The batch written with a plain INSERT and no UNIQUE(mes, trabajador_id).
RECURSIVE BucleCostesSinReemplazo(_, _, _)
BucleCostesSinReemplazo(costes, i, st) ==
    IF i > Len(costes) THEN st
    ELSE BucleCostesSinReemplazo(costes, i + 1,
             [filas |-> st.filas \cup
                          {[id |-> st.seq + 1, mes |-> costes[i].mes,
                            trabajador_id |-> costes[i].trabajador_id,
                            coste_total |-> costes[i].coste_total]},
              seq |-> st.seq + 1])

insertar_costes_laborales_batch_SinReemplazo(d, costes) ==
    LET fin == BucleCostesSinReemplazo(costes, 1,
                   [filas |-> d.costes_laborales, seq |-> d.seq_costes])
    IN [db |-> [d EXCEPT !.costes_laborales = fin.filas, !.seq_costes = fin.seq],
        num |-> Len(costes)]

insertar_costes_laborales_batch(d, costes) ==
    LET fin == BucleCostes(costes, 1,
                           [filas |-> d.costes_laborales, seq |-> d.seq_costes])
    IN [db |-> [d EXCEPT !.costes_laborales = fin.filas, !.seq_costes = fin.seq],
        num |-> Len(costes)]

insertar_importacion_tipada(d, archivo_nombre, num, tipo, hash_archivo) ==
    [d EXCEPT !.importaciones = @ \cup
                  {FilaImportacion(d.seq_importaciones + 1, archivo_nombre, num,
                                   tipo, hash_archivo)},
              !.seq_importaciones = @ + 1]

\* preparar_para_guardado: the columns of the frame that go to the database.
preparar_para_guardado(df) ==
    [i \in 1 .. Len(df) |->
        [fecha |-> df[i].fecha, descripcion |-> df[i].descripcion,
         importe |-> df[i].importe, categoria_id |-> df[i].categoria_id,
         vehiculo_id |-> df[i].vehiculo_id]]

\* generar_movimientos_para_db, fuel invoices: one movement per vehicle whose net
\* amount is positive, booked as an expense (negative amount) of category COMB.
RECURSIVE MovimientosDeResumen(_, _, _)
MovimientosDeResumen(proveedor, resumen, i) ==
    IF i > Len(resumen) THEN <<>>
    ELSE LET datos == resumen[i]
             resto == MovimientosDeResumen(proveedor, resumen, i + 1)
         IN IF datos.importe_neto > 0
            THEN <<[fecha |-> 2, descripcion |-> proveedor,
                    importe |-> 0 - datos.importe_neto, categoria_id |-> "COMB",
                    vehiculo_id |-> datos.vehiculo]>> \o resto
            ELSE resto

generar_movimientos_para_db(resultado) ==
    MovimientosDeResumen(resultado.proveedor, resultado.resumen_vehiculos, 1)

\* Where the persistence of one file raises ("ninguno": nowhere). A call that
\* raises before its commit leaves nothing behind: the connection is dropped with
\* its transaction open. ":sync" is _sync_if_turso raising after the commit.
FallosDe(item) ==
    {"ninguno"} \cup
    (IF item.tipo \in TiposMovimientos
     THEN {"insertar_movimientos", "insertar_movimientos:sync"}
     ELSE IF item.tipo = "COSTES_LABORALES"
     THEN {"insertar_costes_laborales_batch", "insertar_costes_laborales_batch:sync",
           "insertar_importacion_tipada", "insertar_importacion_tipada:sync"}
     ELSE {})

Exito(d) == [db |-> d, exitos |-> 1, errores |-> 0]
Error(d) == [db |-> d, exitos |-> 0, errores |-> 1]

\* except Exception as e: errores.append(f"{item['nombre']}: {e}")
ExceptSilencioso(d) == [db |-> d, exitos |-> 0, errores |-> 0]
Except(d) == Error(d)

\* insertar_movimientos called inside the try of the loop.
GuardarMovimientos(d, movs, item, fallo) ==
    LET r == insertar_movimientos(d, movs, item.nombre, item.tipo, item.hash) IN
    IF fallo = "insertar_movimientos" THEN Except(d)
    ELSE IF fallo = "insertar_movimientos:sync" THEN Except(r.db)
    ELSE Exito(r.db)

\* insertar_costes_laborales_batch, then insertar_importacion_tipada, each on its
\* own connection with its own commit.
GuardarCostes(d, resultados, item, fallo) ==
    LET r == insertar_costes_laborales_batch(d, resultados)
        fin == insertar_importacion_tipada(r.db, item.nombre, r.num, item.tipo,
                                           item.hash)
    IN IF fallo = "insertar_costes_laborales_batch" THEN Except(d)
       ELSE IF fallo \in {"insertar_costes_laborales_batch:sync",
                          "insertar_importacion_tipada"} THEN Except(r.db)
       ELSE IF fallo = "insertar_importacion_tipada:sync" THEN Except(fin)
       ELSE Exito(fin)

\* One iteration of the loop of _ejecutar_importacion: the database after it and
\* what it added to exitos and to errores.
ProcesarArchivo(d, item, fallo) ==
    LET parsed == item.parsed_data IN
    IF item.tipo = "EXTRACTO_ABANCA"
    THEN IF parsed # SinDatos
         THEN GuardarMovimientos(d, preparar_para_guardado(parsed.df), item, fallo)
         ELSE Error(d)
    ELSE IF item.tipo \in TiposFactura
    THEN IF parsed # SinDatos /\ parsed.resumen_vehiculos # <<>>
         THEN LET movs == generar_movimientos_para_db(parsed) IN
              IF movs # <<>> THEN GuardarMovimientos(d, movs, item, fallo)
              ELSE Error(d)
         ELSE Error(d)
    ELSE IF item.tipo = "COSTES_LABORALES"
    THEN IF parsed # SinDatos
         THEN GuardarCostes(d, parsed.resultados, item, fallo)
         ELSE Error(d)
    ELSE Error(d)

\* for i, item in enumerate(seleccionados): ... st = [db, exitos, errores, traza];
\* traza keeps, for each file, what its iteration added and whether it changed
\* the database.
RECURSIVE BucleImportacion(_, _, _, _)
BucleImportacion(seleccionados, fallos, i, st) ==
    IF i > Len(seleccionados) THEN st
    ELSE LET item == seleccionados[i]
             r == ProcesarArchivo(st.db, item, fallos[i])
         IN BucleImportacion(seleccionados, fallos, i + 1,
                [db |-> r.db,
                 exitos |-> st.exitos + r.exitos,
                 errores |-> IF r.errores > 0
                             THEN Append(st.errores, item.nombre) ELSE st.errores,
                 traza |-> Append(st.traza,
                              [nombre |-> item.nombre, hash |-> item.hash,
                               tipo |-> item.tipo, estado |-> item.estado,
                               fallo |-> fallos[i],
                               exitos |-> r.exitos, errores |-> r.errores,
                               persiste |-> r.db # st.db])])

_ejecutar_importacion(d, seleccionados, fallos) ==
    BucleImportacion(seleccionados, fallos, 1,
                     [db |-> d, exitos |-> 0, errores |-> <<>>, traza |-> <<>>])

\* seleccionados = [i for i in items if i['seleccionado'] and i['tipo'] and
\*                  i['estado'] != 'error']
Importable(item) == item.seleccionado /\ item.tipo # NULL /\ item.estado # "error"

Seleccionados(items) == SelectSeq(items, Importable)

\* ------------------------------------------------ "Importar Todo": the page

\* What st.file_uploader hands to one run: uploaded files, none of them twice.
Lotes ==
    {l \in SeqsHasta(Archivos, MaxArchivos) :
        l # <<>> /\ \A i, j \in DOMAIN l : i # j => l[i] # l[j]}

\* for archivo in nuevos: ... importar_todo_archivos.append({...})
AnalizarNuevos(d, nuevos) == [i \in 1 .. Len(nuevos) |-> AnalizarArchivo(d, nuevos[i])]

NoVisto(archivo) == archivo.nombre \notin sesion.nombres

\* The model starts from a database that init_database created empty.
InitImportar ==
    /\ db = init_database(BaseVacia)
    /\ origen = "nueva"
    /\ ult = SinLlamada
    /\ sesion = SesionVacia
    /\ verif = SinVerificar
    /\ cat = CatInicial
    /\ calc = SinCalculo

\* A run of _render_importar_tab whose uploader holds files not analysed yet.
Do_analizar ==
    \E lote \in Lotes :
        LET nuevos == SelectSeq(lote, NoVisto)
            items == AnalizarNuevos(db, nuevos)
        IN /\ nuevos # <<>>
           /\ Len(sesion.archivos) + Len(nuevos) <= MaxArchivos
           /\ sesion' = [archivos |-> sesion.archivos \o items,
                         nombres |-> sesion.nombres \cup
                                       {nuevos[i].nombre : i \in DOMAIN nuevos},
                         informe |-> SinInforme]
           /\ verif' = [hashes |-> verif.hashes \cup
                                      {items[i].hash : i \in DOMAIN items},
                        nombres |-> verif.nombres \cup
                                      {items[i].nombre : i \in DOMAIN items}]
           /\ UNCHANGED <<db, origen, ult, cat, calc>>

\* The user clicks the checkbox of one row of the preview.
Do_marcar ==
    \E idx \in DOMAIN sesion.archivos :
        /\ sesion' = [sesion EXCEPT !.archivos[idx].seleccionado = ~@,
                                    !.informe = SinInforme]
        /\ UNCHANGED <<db, origen, ult, verif, cat, calc>>

\* Payroll rows the selected files would write.
RECURSIVE FilasDeCostes(_, _)
FilasDeCostes(seleccionados, i) ==
    IF i > Len(seleccionados) THEN 0
    ELSE (IF seleccionados[i].tipo = "COSTES_LABORALES"
             /\ seleccionados[i].parsed_data # SinDatos
          THEN Len(seleccionados[i].parsed_data.resultados) ELSE 0)
         + FilasDeCostes(seleccionados, i + 1)

\* The user clicks "Importar seleccionados": _ejecutar_importacion runs over the
\* selected files, any of its database calls may raise, and the session is
\* cleared at the end.
Do_importar_seleccionados ==
    LET seleccionados == Seleccionados(sesion.archivos) IN
    /\ seleccionados # <<>>
    /\ db.seq_importaciones + Len(seleccionados) <= MaxImportaciones
    /\ db.seq_costes + FilasDeCostes(seleccionados, 1) <= MaxCostes
    /\ \E fallos \in [DOMAIN seleccionados ->
                          UNION {FallosDe(seleccionados[i]) : i \in DOMAIN seleccionados}] :
          /\ \A i \in DOMAIN seleccionados : fallos[i] \in FallosDe(seleccionados[i])
          /\ LET fin == _ejecutar_importacion(db, seleccionados, fallos) IN
             /\ db' = fin.db
             /\ sesion' = [archivos |-> <<>>, nombres |-> {},
                           informe |-> [traza |-> fin.traza,
                                        exitos |-> fin.exitos,
                                        errores |-> fin.errores]]
    /\ verif' = SinVerificar
    /\ UNCHANGED <<origen, ult, cat, calc>>

\* The user clicks "Limpiar todo".
Do_limpiar_todo ==
    /\ sesion.archivos # <<>>
    /\ sesion' = SesionVacia
    /\ verif' = SinVerificar
    /\ UNCHANGED <<db, origen, ult, cat, calc>>

\* gastos_sin_vehiculo of pagina_importar: expenses with no vehicle block the save.
gastos_sin_vehiculo(movs) ==
    {i \in DOMAIN movs : movs[i].importe < 0 /\ movs[i].vehiculo_id = NULL
                          /\ movs[i].categoria_id # "INGRESO"}

\* "Guardar Importacion" of pagina_importar: the uploaded CSV, with the vehicle
\* the user assigned to its rows, goes straight to insertar_movimientos under the
\* file's name, with no type and no hash.
Do_pagina_importar_guardar ==
    \E archivo \in Archivos, vehiculo \in {NULL, "MTY"} :
        LET df == Contenido(archivo.contenido).filas
            movimientos_finales ==
                [i \in DOMAIN df |->
                    [fecha |-> df[i].fecha, descripcion |-> df[i].descripcion,
                     importe |-> df[i].importe, categoria_id |-> df[i].categoria_id,
                     vehiculo_id |-> vehiculo]]
        IN /\ EsCsv(archivo.nombre)
           /\ Contenido(archivo.contenido).formato = "csv"
           /\ df # <<>>
           /\ gastos_sin_vehiculo(movimientos_finales) = {}
           /\ db.seq_importaciones < MaxImportaciones
           /\ db' = insertar_movimientos(db, movimientos_finales, archivo.nombre,
                                         NULL, NULL).db
           /\ sesion' = [sesion EXCEPT !.informe = SinInforme]
           /\ UNCHANGED <<origen, ult, verif, cat, calc>>

\* parsear_factura_pdf as pagina_facturas uses it: the summary per vehicle, and
\* errors when no provider signature is found or no line could be read.
FacturaProcesada(archivo) ==
    LET c == Contenido(archivo.contenido) IN
    [nombre |-> archivo.nombre,
     proveedor |-> c.proveedor,
     errores |-> (c.errores \/ c.proveedor = NULL),
     resumen_vehiculos |-> IF c.proveedor = NULL THEN <<>> ELSE c.filas]

RECURSIVE movimientos_totales(_, _)
movimientos_totales(facturas, i) ==
    IF i > Len(facturas) THEN <<>>
    ELSE LET factura == FacturaProcesada(facturas[i])
             resto == movimientos_totales(facturas, i + 1)
         IN IF factura.resumen_vehiculos # <<>> /\ ~factura.errores
            THEN generar_movimientos_para_db(factura) \o resto
            ELSE resto

\* "Guardar en Base de Datos" of pagina_facturas: the movements of all processed
\* invoices go to insertar_movimientos in one call, under a fixed name, with no
\* type and no hash.
Do_pagina_facturas_guardar ==
    \E lote \in Lotes :
        LET movs == movimientos_totales(lote, 1) IN
        /\ \A i \in DOMAIN lote : EsPdf(lote[i].nombre)
        /\ movs # <<>>
        /\ db.seq_importaciones < MaxImportaciones
        /\ db' = insertar_movimientos(db, movs, "Facturas combustible/peajes",
                                      NULL, NULL).db
        /\ sesion' = [sesion EXCEPT !.informe = SinInforme]
        /\ UNCHANGED <<origen, ult, verif, cat, calc>>

NextImportar ==
    \/ Do_analizar
    \/ Do_marcar
    \/ Do_importar_seleccionados
    \/ Do_limpiar_todo
    \/ Do_pagina_importar_guardar
    \/ Do_pagina_facturas_guardar

SpecImportar == InitImportar /\ [][NextImportar]_vars

\* ------------------------------------------------- claims on "Importar Todo"

\* The step is a run of _ejecutar_importacion: only that run leaves a report.
PasoDeImportacion == sesion'.informe.traza # <<>>

\* Entries the step appended to the preview list.
Anadidos == {i \in DOMAIN sesion'.archivos : i > Len(sesion.archivos)}

RegistrosConHash(h) == {r \in db.importaciones : r.hash_archivo = h}

\* C5, first half: of two files of the preview with equal bytes and different
\* names, the later one is flagged 'duplicado' through the hash match.
C5_SegundoSenalado ==
    \A i, j \in DOMAIN sesion.archivos :
        LET a == sesion.archivos[i]
            b == sesion.archivos[j]
        IN (i < j /\ a.hash = b.hash /\ a.nombre # b.nombre) =>
               (b.estado = "duplicado" /\ b.dup_info = "hash")

\* C5, second half: after an import run, a file that was imported without the
\* user having selected it (it was 'nuevo', selected by default) is the only
\* import record with its hash.
C5_UnSoloRegistro ==
    \A k \in DOMAIN sesion.informe.traza :
        LET t == sesion.informe.traza[k] IN
        (t.estado = "nuevo" /\ t.exitos = 1) =>
            Cardinality(RegistrosConHash(t.hash)) <= 1

\* C5: byte-identical files under different names are not double-imported. In
\* every order of analysis and import the second file is flagged 'duplicado' by
\* its hash and, unless the user selects it, at most one import record with that
\* hash is committed.
C5_SinDobleImportacion == C5_SegundoSenalado /\ C5_UnSoloRegistro

\* C6: every import record with movements that a step commits stores the hash of
\* its file, and that hash and the file's name were compared against the import
\* history before the commit, on "Importar Todo", pagina_importar and
\* pagina_facturas alike.
C6_VerificadoAntesDeConfirmar ==
    [][\A r \in (db'.importaciones \ db.importaciones) :
          r.tipo # "COSTES_LABORALES" =>
              /\ r.hash_archivo # NULL
              /\ r.hash_archivo \in verif.hashes
              /\ r.archivo_nombre \in verif.nombres]_vars

\* The same on the "Importar Todo" path alone.
C6_SoloImportarTodo ==
    [][PasoDeImportacion =>
          \A r \in (db'.importaciones \ db.importaciones) :
              /\ r.hash_archivo # NULL
              /\ r.hash_archivo \in verif.hashes
              /\ r.archivo_nombre \in verif.nombres]_vars

\* The file's hash or name is that of a recorded import when it is analysed.
Coincide(it) ==
    \E r \in db.importaciones :
        r.hash_archivo = it.hash \/ r.archivo_nombre = it.nombre

\* What an import run does with the flagged files of the preview: it processes
\* those the user ticked, and only those.
ImportadoSiMarcado ==
    PasoDeImportacion =>
        \A i \in DOMAIN sesion.archivos :
            LET it == sesion.archivos[i] IN
            it.estado = "duplicado" =>
                (it.seleccionado <=>
                    \E k \in DOMAIN sesion'.informe.traza :
                        LET t == sesion'.informe.traza[k] IN
                        t.nombre = it.nombre /\ t.hash = it.hash
                        /\ t.estado = "duplicado")

C8_UnResultadoPorArchivo ==
    [][PasoDeImportacion =>
          LET seleccionados == Seleccionados(sesion.archivos)
              inf == sesion'.informe
              ConError(t) == t.errores = 1
              fallidos == SelectSeq(inf.traza, ConError)
          IN /\ Len(inf.traza) = Len(seleccionados)
             /\ \A k \in DOMAIN inf.traza :
                   /\ inf.traza[k].nombre = seleccionados[k].nombre
                   /\ inf.traza[k].hash = seleccionados[k].hash
                   /\ inf.traza[k].exitos + inf.traza[k].errores = 1
             /\ inf.exitos =
                   Cardinality({k \in DOMAIN inf.traza : inf.traza[k].exitos = 1})
             /\ inf.errores = [k \in DOMAIN fallidos |-> fallidos[k].nombre]
             /\ inf.exitos + Len(inf.errores) = Len(seleccionados)]_vars

\* C8 witness: a run of two files in which the persistence of the first raised
\* and the second was imported all the same.
C8_Testigo ==
    LET traza == sesion.informe.traza IN
    /\ Len(traza) = 2
    /\ traza[1].fallo # "ninguno" /\ traza[1].errores = 1 /\ traza[1].exitos = 0
    /\ traza[2].exitos = 1 /\ traza[2].errores = 0
    /\ sesion.informe.exitos = 1
    /\ sesion.informe.errores = <<traza[1].nombre>>

\* C9: a file whose persistence raised at any step has left nothing in the
\* database, neither data rows nor an import record.
C9_ConfirmacionAtomica ==
    \A k \in DOMAIN sesion.informe.traza :
        sesion.informe.traza[k].fallo # "ninguno" =>
            ~sesion.informe.traza[k].persiste

\* The same for the calls that raise before their own commit, bank statements
\* and invoices only.
C9_SoloMovimientos ==
    \A k \in DOMAIN sesion.informe.traza :
        sesion.informe.traza[k].fallo = "insertar_movimientos" =>
            ~sesion.informe.traza[k].persiste

\* ------------------------------------------- specification: the rule engine

Descripciones == SeqsHasta(Letras, MaxDescripcion)

Importes == {-5, 0, 5}

PatronesNuevos == {<<"l">>, <<"L">>, <<"I", "L">>}

InitCategorizar ==
    /\ db = init_database(BaseVacia)
    /\ origen = "nueva"
    /\ ult = SinLlamada
    /\ sesion = SesionVacia
    /\ verif = SinVerificar
    /\ cat = CatInicial
    /\ calc = SinCalculo

Do_agregar_regla ==
    \E patron \in PatronesNuevos, categoria_id \in {"COMB", "INGRESO"},
       vehiculo_id \in {NULL, "MTY"} :
        /\ cat.seq < MaxReglas
        /\ cat' = [agregar_regla(cat, patron, categoria_id, vehiculo_id)
                      EXCEPT !.fase = "espera", !.entrada = SinFila,
                             !.salida = SinSalida]
        /\ UNCHANGED <<db, origen, ult, sesion, verif, calc>>

Do_eliminar_regla ==
    \E r \in cat.reglas :
        /\ r.activa
        /\ cat' = [eliminar_regla(cat, r.id)
                      EXCEPT !.fase = "espera", !.entrada = SinFila,
                             !.salida = SinSalida]
        /\ UNCHANGED <<db, origen, ult, sesion, verif, calc>>

\* auto_categorizar on a frame of one row, with the rules as get_reglas returns
\* them.
Do_auto_categorizar ==
    \E descripcion \in Descripciones, importe \in Importes :
        LET fila == [descripcion |-> descripcion, importe |-> importe] IN
        /\ cat' = [cat EXCEPT !.fase = "categorizado", !.entrada = fila,
                              !.salida = auto_categorizar(get_reglas(cat.reglas), fila)]
        /\ UNCHANGED <<db, origen, ult, sesion, verif, calc>>

NextCategorizar ==
    \/ Do_agregar_regla
    \/ Do_eliminar_regla
    \/ Do_auto_categorizar

SpecCategorizar == InitCategorizar /\ [][NextCategorizar]_vars

\* The active rules in the order they were configured (ids grow with time).
ReglasConfiguradas ==
    LET activas == {r \in cat.reglas : r.activa} IN
    [i \in 1 .. Cardinality(activas) |->
        CHOOSE r \in activas : Cardinality({o \in activas : PorId(o, r)}) = i - 1]

\* The result of the first rule of a list that matches the categorized row.
SalidaEsDe(reglas) ==
    LET i == PrimeraCoincidencia(reglas, upper(cat.entrada.descripcion)) IN
    i # 0 => (cat.salida.categoria_id = reglas[i].categoria_id
              /\ cat.salida.vehiculo_id = reglas[i].vehiculo_id)

\* C10, second half: a row that matches no active rule gets the fallback, never
\* the category or vehicle of an inactive rule.
C10_InactivasNoAplican ==
    (cat.fase = "categorizado"
     /\ PrimeraCoincidencia(ReglasConfiguradas, upper(cat.entrada.descripcion)) = 0)
        => (cat.salida.categoria_id \in {"INGRESO", "OTRO"}
            /\ cat.salida.vehiculo_id = NULL)

\* C10: auto_categorizar assigns the category and vehicle of the first active
\* rule, in the order the rules were configured, whose pattern is a substring of
\* the upper-cased description; inactive rules are never applied.
C10_PrimeraCoincidenciaGana ==
    cat.fase = "categorizado" =>
        (SalidaEsDe(ReglasConfiguradas) /\ C10_InactivasNoAplican)

\* What the code does instead: the first match in alphabetical order of pattern.
C10_OrdenAlfabetico ==
    cat.fase = "categorizado" => SalidaEsDe(get_reglas(cat.reglas))

\* No active rule has its upper-cased pattern in the upper-cased description of
\* the categorized row.
SinReglaQueCoincida ==
    \A r \in cat.reglas :
        r.activa => ~EsSubcadena(upper(r.patron), upper(cat.entrada.descripcion))

\* C11: a movement that matches no active rule gets INGRESO when its amount is
\* positive and OTRO when it is negative, with necesita_revision true in both
\* cases; and every categorized row has a categoria_id that is not null.
C11_CategoriaPorDefecto ==
    cat.fase = "categorizado" =>
        /\ cat.salida.categoria_id # NULL
        /\ SinReglaQueCoincida =>
              /\ cat.entrada.importe > 0 => cat.salida.categoria_id = "INGRESO"
              /\ cat.entrada.importe < 0 => cat.salida.categoria_id = "OTRO"
              /\ cat.salida.necesita_revision
              /\ cat.salida.vehiculo_id = NULL

\* C11 witness: a row with a description that only a deactivated rule would
\* match, a negative amount, categorized OTRO and flagged for review.
C11_Testigo ==
    /\ cat.fase = "categorizado"
    /\ cat.entrada.descripcion # <<>>
    /\ \E r \in cat.reglas :
          ~r.activa /\ EsSubcadena(upper(r.patron), upper(cat.entrada.descripcion))
    /\ SinReglaQueCoincida
    /\ cat.entrada.importe < 0
    /\ cat.salida.categoria_id = "OTRO"
    /\ cat.salida.necesita_revision

\* The rule that auto_categorizar applied to the categorized row (the first of
\* get_reglas that matches), as a set: empty when none matches.
ReglaAplicada ==
    LET reglas == get_reglas(cat.reglas)
        i == PrimeraCoincidencia(reglas, upper(cat.entrada.descripcion))
    IN IF i = 0 THEN {} ELSE {reglas[i]}

\* C12: when the matched rule's category is of kind GASTO and the rule assigns no
\* vehicle, necesita_revision is true whatever the sign of the amount; when the
\* rule assigns a vehicle or its category is an income category, it is false.
C12_RevisionGastoSinVehiculo ==
    cat.fase = "categorizado" =>
        \A r \in ReglaAplicada :
            cat.salida.necesita_revision <=>
                (TipoCategoria(r.categoria_id) = "GASTO" /\ r.vehiculo_id = NULL)

\* The same for movements of negative amount only.
C12_SoloImportesNegativos ==
    (cat.fase = "categorizado" /\ cat.entrada.importe < 0) =>
        \A r \in ReglaAplicada :
            cat.salida.necesita_revision <=>
                (TipoCategoria(r.categoria_id) = "GASTO" /\ r.vehiculo_id = NULL)

\* -------------------------------------- content-level duplicate detection

\* Longest batch of candidates, and most persisted movements, in the model.
MaxCandidatos == 2
MaxPersistidos == 1

\* str(descripcion)[:50]
LargoClave == 50

Relleno == [i \in 1 .. LargoClave |-> "x"]

\* Two descriptions that differ only after their 50th character, and a short one.
DescLargaA == Relleno \o <<"a">>
DescLargaB == Relleno \o <<"b">>
DescCorta == <<"a">>

PrefijoCompleto(descripcion) == descripcion
Prefijo(descripcion) ==
    SubSeq(descripcion, 1,
           IF Len(descripcion) < LargoClave THEN Len(descripcion) ELSE LargoClave)

\* Amounts are in thousandths of a euro. round(float(importe), 2) in cents, to
\* the nearest cent (no amount of the model lies halfway between two cents).
Centimos(importe) ==
    IF importe >= 0 THEN (importe + 5) \div 10 ELSE 0 - ((5 - importe) \div 10)

\* f"{imp}": the text of the rounded float. A negative amount that rounds to zero
\* prints "-0.0", a positive one "0.0".
TextoImporte(importe) ==
    [negativo |-> importe < 0,
     centimos |-> IF Centimos(importe) < 0 THEN 0 - Centimos(importe)
                  ELSE Centimos(importe)]

\* f"{fecha}|{desc}|{imp}": neither the date nor the amount holds a "|", so the
\* text determines its three parts.
ClaveTexto(fila) == <<fila.fecha, Prefijo(fila.descripcion), TextoImporte(fila.importe)>>

Minimo(S) == CHOOSE x \in S : \A y \in S : x <= y
Maximo(S) == CHOOSE x \in S : \A y \in S : x >= y

\* detectar_duplicados: the frame with the column posible_duplicado.
detectar_duplicados(d, df) ==
    LET fechas == {df[i].fecha : i \in DOMAIN df}
        existentes == {r \in d.movimientos :
                         Minimo(fechas) <= r.fecha /\ r.fecha <= Maximo(fechas)}
        claves_existentes == {ClaveTexto(r) : r \in existentes}
    IN IF df = <<>> THEN df
       ELSE [i \in DOMAIN df |->
               [fecha |-> df[i].fecha, descripcion |-> df[i].descripcion,
                importe |-> df[i].importe,
                posible_duplicado |-> (existentes # {}
                                       /\ ClaveTexto(df[i]) \in claves_existentes)]]

\* The movements the candidates and the ledger are drawn from.
Candidatos ==
    {[fecha |-> 1, descripcion |-> DescLargaA, importe |-> 1230],
     [fecha |-> 1, descripcion |-> DescLargaB, importe |-> 1234],
     [fecha |-> 2, descripcion |-> DescLargaA, importe |-> 1230],
     [fecha |-> 1, descripcion |-> DescCorta, importe |-> 1230],
     [fecha |-> 1, descripcion |-> DescLargaA, importe |-> -4],
     [fecha |-> 1, descripcion |-> DescLargaA, importe |-> 4]}

\* A ledger that holds some of these movements, each once.
BasesConMovimientos ==
    {[BaseVacia EXCEPT
        !.movimientos =
            {[id |-> i, fecha |-> f[i].fecha, descripcion |-> f[i].descripcion,
              importe |-> f[i].importe, categoria_id |-> "OTRO",
              vehiculo_id |-> NULL, importacion_id |-> 0] : i \in DOMAIN f},
        !.seq_movimientos = Len(f),
        !.tiene_indice = TRUE] :
     f \in {g \in SeqsHasta(Candidatos, MaxPersistidos) :
              \A i, j \in DOMAIN g : i < j => g[i] # g[j]}}

InitDuplicados ==
    /\ db \in BasesConMovimientos
    /\ origen = "heredada"
    /\ ult = SinLlamada
    /\ sesion = SesionVacia
    /\ verif = SinVerificar
    /\ cat = CatInicial
    /\ \E df \in SeqsHasta(Candidatos, MaxCandidatos) :
          calc = [op |-> "pendiente", entrada |-> df, salida |-> <<>>]

Do_detectar_duplicados ==
    /\ calc.op = "pendiente"
    /\ calc' = [op |-> "detectar_duplicados", entrada |-> calc.entrada,
                salida |-> detectar_duplicados(db, calc.entrada)]
    /\ UNCHANGED <<db, origen, ult, sesion, verif, cat>>

NextDuplicados == Do_detectar_duplicados

SpecDuplicados == InitDuplicados /\ [][NextDuplicados]_vars

\* The two descriptions agree on their first 50 characters.
MismoPrefijo(a, b) ==
    \A k \in 1 .. LargoClave :
        /\ (k <= Len(a)) <=> (k <= Len(b))
        /\ (k <= Len(a)) => a[k] = b[k]

\* The two amounts round to the same number of cents.
MismoRedondeo(x, y) ==
    \E c \in -200 .. 200 :
        /\ x - 10 * c < 5 /\ 10 * c - x < 5
        /\ y - 10 * c < 5 /\ 10 * c - y < 5

\* Both amounts round to zero, one from below and the other not.
CerosDeDistintoSigno(x, y) ==
    MismoRedondeo(x, 0) /\ MismoRedondeo(y, 0) /\ ((x < 0) # (y < 0))

\* Some persisted movement dated within the dates of the batch has the date,
\* the first 50 characters of description and the rounded amount of the candidate.
HayPersistidoIgual(df, c) ==
    \E r \in db.movimientos :
        /\ \E i \in DOMAIN df : r.fecha <= df[i].fecha
        /\ \E i \in DOMAIN df : df[i].fecha <= r.fecha
        /\ r.fecha = c.fecha
        /\ MismoPrefijo(r.descripcion, c.descripcion)
        /\ MismoRedondeo(r.importe, c.importe)

HayPersistidoIgualTexto(df, c) ==
    \E r \in db.movimientos :
        /\ \E i \in DOMAIN df : r.fecha <= df[i].fecha
        /\ \E i \in DOMAIN df : df[i].fecha <= r.fecha
        /\ r.fecha = c.fecha
        /\ MismoPrefijo(r.descripcion, c.descripcion)
        /\ MismoRedondeo(r.importe, c.importe)
        /\ ~CerosDeDistintoSigno(r.importe, c.importe)

\* The call kept the ledger and the candidates: same number, same order, same
\* date, description and amount.
SoloMarca ==
    /\ db' = db
    /\ Len(calc'.salida) = Len(calc.entrada)
    /\ \A i \in DOMAIN calc.entrada :
          /\ calc'.salida[i].fecha = calc.entrada[i].fecha
          /\ calc'.salida[i].descripcion = calc.entrada[i].descripcion
          /\ calc'.salida[i].importe = calc.entrada[i].importe

\* C13 as stated: posible_duplicado is true on a candidate exactly when some
\* persisted movement dated within the dates of the batch has the same date,
\* first 50 characters of description and amount rounded to 2 decimals; the
\* ledger and the number and order of candidates do not change.
C13_DuplicadoPorContenidoOriginal ==
    [][calc'.op = "detectar_duplicados" =>
          /\ SoloMarca
          /\ \A i \in DOMAIN calc.entrada :
                calc'.salida[i].posible_duplicado <=>
                    HayPersistidoIgual(calc.entrada, calc.entrada[i])]_vars

\* C13, amended: the same, with the rounded amount compared as printed, so that
\* an amount that rounds to zero from below ("-0.0") does not match one that
\* rounds to zero from above or is zero ("0.0").
C13_DuplicadoPorContenido ==
    [][calc'.op = "detectar_duplicados" =>
          /\ SoloMarca
          /\ \A i \in DOMAIN calc.entrada :
                calc'.salida[i].posible_duplicado <=>
                    HayPersistidoIgualTexto(calc.entrada, calc.entrada[i])]_vars

\* C13 witness: a batch of two candidates of which the first is flagged, through
\* a persisted movement whose description and amount differ from its own beyond
\* the 50th character and the second decimal, and the second is not.
C13_Testigo ==
    /\ calc.op = "detectar_duplicados"
    /\ Len(calc.salida) = 2
    /\ calc.salida[1].posible_duplicado
    /\ ~calc.salida[2].posible_duplicado
    /\ \A r \in db.movimientos :
          /\ r.descripcion # calc.salida[1].descripcion
          /\ r.importe # calc.salida[1].importe

\* ------------------------------------------------ fuel and toll invoices

\* A float is modelled by the rational it stands for, in lowest terms; the
\* rounding of binary floating point (one part in 2^53) is left out. None is the
\* record with none = TRUE.
Ninguno == [none |-> TRUE, n |-> 0, d |-> 1]

Abs(x) == IF x < 0 THEN 0 - x ELSE x

RECURSIVE MCD(_, _)
MCD(a, b) == IF b = 0 THEN a ELSE MCD(b, a % b)

Racional(n, d) ==
    [none |-> FALSE, n |-> n \div MCD(Abs(n), d), d |-> d \div MCD(Abs(n), d)]

Cero == Racional(0, 1)
Mas(a, b) == Racional(a.n * b.d + b.n * a.d, a.d * b.d)
Menos(a, b) == Racional(a.n * b.d - b.n * a.d, a.d * b.d)
Por(a, b) == Racional(a.n * b.n, a.d * b.d)
Entre(a, b) ==
    Racional((IF b.n < 0 THEN 0 - 1 ELSE 1) * a.n * b.d, a.d * Abs(b.n))
Menor(a, b) == a.n * b.d < b.n * a.d

\* x or 0
OCero(x) == IF x.none THEN Cero ELSE x

RECURSIVE Sumar(_)
Sumar(numeros) ==
    IF numeros = <<>> THEN Cero ELSE Mas(Head(numeros), Sumar(Tail(numeros)))

Cifras == {"0", "1", "2", "3", "4", "5", "6", "7", "8", "9"}

ValorCifra(c) ==
    CASE c = "0" -> 0 [] c = "1" -> 1 [] c = "2" -> 2 [] c = "3" -> 3
      [] c = "4" -> 4 [] c = "5" -> 5 [] c = "6" -> 6 [] c = "7" -> 7
      [] c = "8" -> 8 [] OTHER -> 9

RECURSIVE ValorCifras(_)
ValorCifras(t) ==
    IF t = <<>> THEN 0
    ELSE 10 * ValorCifras(SubSeq(t, 1, Len(t) - 1)) + ValorCifra(t[Len(t)])

RECURSIVE Potencia10(_)
Potencia10(k) == IF k = 0 THEN 1 ELSE 10 * Potencia10(k - 1)

\* parsear_numero_es: "1.234,56" to 1234.56. The tokens the invoice patterns
\* capture hold digits, commas, points and a leading minus sign only; float()
\* accepts what is left when it has one decimal separator at most and a digit.
parsear_numero_es(texto) ==
    LET sin_miles == SelectSeq(texto, LAMBDA c : c # ".")
        negativo == sin_miles # <<>> /\ Head(sin_miles) = "-"
        cuerpo == IF negativo THEN Tail(sin_miles) ELSE sin_miles
        comas == {i \in DOMAIN cuerpo : cuerpo[i] = ","}
        cifras == SelectSeq(cuerpo, LAMBDA c : c \in Cifras)
        decimales == IF comas = {} THEN 0
                     ELSE Len(cuerpo) - (CHOOSE i \in comas : TRUE)
    IN IF \/ texto = <<>>
          \/ texto = <<"-">>
          \/ Cardinality(comas) > 1
          \/ cifras = <<>>
          \/ Len(cifras) + Cardinality(comas) # Len(cuerpo)
       THEN Ninguno
       ELSE Racional((IF negativo THEN 0 - 1 ELSE 1) * ValorCifras(cifras),
                     Potencia10(decimales))

\* MATRICULAS_VEHICULOS, in the order of the dictionary.
MATRICULAS_VEHICULOS ==
    <<[key |-> <<"1", "2", "5", "7", "M", "T", "Y">>, value |-> "MTY"],
      [key |-> <<"1", "2", "5", "7", "-", "M", "T", "Y">>, value |-> "MTY"],
      [key |-> <<"M", "T", "Y">>, value |-> "MTY"],
      [key |-> <<"9", "2", "4", "5", "M", "J", "C">>, value |-> "MJC"],
      [key |-> <<"9", "2", "4", "5", "-", "M", "J", "C">>, value |-> "MJC"],
      [key |-> <<"M", "J", "C">>, value |-> "MJC"],
      [key |-> <<"1", "3", "8", "2", "L", "V", "X">>, value |-> "LVX"],
      [key |-> <<"1", "3", "8", "2", "-", "L", "V", "X">>, value |-> "LVX"],
      [key |-> <<"L", "V", "X">>, value |-> "LVX"],
      [key |-> <<"0", "2", "4", "5", "M", "L", "B">>, value |-> "MLB"],
      [key |-> <<"0", "2", "4", "5", "-", "M", "L", "B">>, value |-> "MLB"],
      [key |-> <<"M", "L", "B">>, value |-> "MLB"]>>

\* .replace('-', '')
SinGuiones(t) == SelectSeq(t, LAMBDA c : c # "-")

\* normalizar_matricula: the vehicle of the first key equal to the normalised
\* plate, else of the first key that holds it or that it holds, else None.
normalizar_matricula(matricula) ==
    LET m == SinGuiones(SelectSeq(upper(matricula), LAMBDA c : c # " "))
        directa == {i \in DOMAIN MATRICULAS_VEHICULOS :
                      SinGuiones(MATRICULAS_VEHICULOS[i].key) = m}
        contenida == {i \in DOMAIN MATRICULAS_VEHICULOS :
                        \/ EsSubcadena(SinGuiones(MATRICULAS_VEHICULOS[i].key), m)
                        \/ EsSubcadena(m, SinGuiones(MATRICULAS_VEHICULOS[i].key))}
    IN IF directa # {} THEN MATRICULAS_VEHICULOS[Minimo(directa)].value
       ELSE IF contenida # {} THEN MATRICULAS_VEHICULOS[Minimo(contenida)].value
       ELSE NULL

\* The text of an invoice is modelled by its issuer's name and the lines the
\* patterns of the parsers recognise, each with the tokens its pattern captures:
\*   vehiculo   the line that names a plate
\*   repostaje  a StarOil or Valcarce fuel line (litres, price, amount)
\*   operacion  a Solred fuel line and the numbers found after its concept
\*   peaje      a Valcarce toll or rebate line;  cargo  a fee line
\*   base       "-- Total Base Imponible" of the vehicle
\* Dates and invoice numbers enter no amount and are left out.

\* calcular_resumen_vehiculos with the plain mean of the prices.
MediaSimple(movs) ==
    Entre(Sumar([i \in DOMAIN movs |-> OCero(movs[i].precio_litro)]),
          Racional(Len(movs), 1))

\* precio_medio_litro of the fuel lines of one vehicle.
MediaPonderada(movs) ==
    Entre(Sumar([i \in DOMAIN movs |->
                   Por(OCero(movs[i].precio_litro), OCero(movs[i].litros))]),
          Sumar([i \in DOMAIN movs |-> OCero(movs[i].litros)]))

DeVehiculo(movimientos, veh) == SelectSeq(movimientos, LAMBDA m : m.vehiculo = veh)
DeConcepto(movimientos, conceptos) ==
    SelectSeq(movimientos, LAMBDA m : m.concepto \in conceptos)
ImportesDe(movs) == [i \in DOMAIN movs |-> OCero(movs[i].importe)]
LitrosDe(movs) == [i \in DOMAIN movs |-> OCero(movs[i].litros)]

\* calcular_resumen_vehiculos: the summary of each vehicle that has a line.
calcular_resumen_vehiculos(movimientos) ==
    [veh \in {movimientos[i].vehiculo : i \in DOMAIN movimientos} |->
        LET movs == DeVehiculo(movimientos, veh)
            gasoil == DeConcepto(movs, {"GASOIL"})
            adblue == DeConcepto(movs, {"ADBLUE"})
            total_litros == Sumar(LitrosDe(movs))
        IN [litros_gasoil |-> Sumar(LitrosDe(gasoil)),
            litros_adblue |-> Sumar(LitrosDe(adblue)),
            importe_gasoil |-> Sumar(ImportesDe(gasoil)),
            importe_adblue |-> Sumar(ImportesDe(adblue)),
            descuento_total |->
                Sumar([i \in DOMAIN movs |-> OCero(movs[i].descuento)]),
            importe_neto |-> Sumar(ImportesDe(movs)),
            precio_medio_litro |->
                IF Menor(Cero, total_litros) THEN MediaPonderada(movs) ELSE Cero,
            num_repostajes |-> Len(movs)]]

\* calcular_resumen_peajes: bases_imponibles is the function from the vehicles
\* with a captured base to that base.
calcular_resumen_peajes(movimientos, bases_imponibles) ==
    [veh \in {movimientos[i].vehiculo : i \in DOMAIN movimientos} |->
        LET movs == DeVehiculo(movimientos, veh)
            importe_peajes == Sumar(ImportesDe(DeConcepto(movs, {"PEAJE"})))
            importe_bonificaciones ==
                Sumar(ImportesDe(DeConcepto(movs, {"BONIF_PEAJE"})))
            importe_comisiones ==
                Sumar(ImportesDe(DeConcepto(movs, {"COMISION", "SEGURO", "CUOTA"})))
        IN [num_peajes |-> Len(DeConcepto(movs, {"PEAJE"})),
            importe_peajes |-> importe_peajes,
            importe_bonificaciones |-> importe_bonificaciones,
            importe_comisiones |-> importe_comisiones,
            importe_neto |->
                IF DOMAIN bases_imponibles # {}
                THEN IF veh \in DOMAIN bases_imponibles
                     THEN bases_imponibles[veh] ELSE Cero
                ELSE Mas(Mas(importe_peajes, importe_bonificaciones),
                         importe_comisiones)]]

SinBases == [veh \in {} |-> Cero]
SinResumen == [veh \in {} |-> Cero]

\* BONIF_STAROIL_GASOIL and BONIF_STAROIL_ADBLUE, with and without IVA.
BONIF_STAROIL_GASOIL_IVA == Racional(165, 1000)
BONIF_STAROIL_ADBLUE_IVA == Racional(30, 100)
IVA_INCLUIDO == Racional(121, 100)
\* The fixed rebate taken off the base with its IVA left in.
BONIF_STAROIL_GASOIL_ConIVA == BONIF_STAROIL_GASOIL_IVA
BONIF_STAROIL_GASOIL == Entre(BONIF_STAROIL_GASOIL_IVA, IVA_INCLUIDO)
BONIF_STAROIL_ADBLUE == Entre(BONIF_STAROIL_ADBLUE_IVA, IVA_INCLUIDO)

\* The loop of parsear_staroil over the lines. Arithmetic on a token that did
\* not parse raises TypeError, which leaves the loop and the function.
RECURSIVE LeerStaroil(_, _)
LeerStaroil(lineas, e) ==
    IF lineas = <<>> THEN e
    ELSE LET linea == Head(lineas)
             litros == parsear_numero_es(linea.litros)
             precio_bruto_iva == parsear_numero_es(linea.precio)
             importe_con_iva == parsear_numero_es(linea.importe)
             importe_base == Entre(importe_con_iva, IVA_INCLUIDO)
             descuento == Por(litros, IF linea.concepto = "GASOIL"
                                      THEN BONIF_STAROIL_GASOIL
                                      ELSE BONIF_STAROIL_ADBLUE)
         IN IF linea.tipo = "vehiculo"
            THEN LeerStaroil(Tail(lineas),
                     [e EXCEPT !.vehiculo_actual = normalizar_matricula(linea.matricula)])
            ELSE IF linea.tipo = "repostaje" /\ e.vehiculo_actual # NULL
            THEN IF litros.none \/ precio_bruto_iva.none \/ importe_con_iva.none
                 THEN [e EXCEPT !.lanza = TRUE]
                 ELSE LeerStaroil(Tail(lineas),
                          [e EXCEPT !.movimientos = Append(@,
                              [vehiculo |-> e.vehiculo_actual,
                               concepto |-> linea.concepto,
                               litros |-> litros,
                               precio_litro |->
                                   Menos(precio_bruto_iva,
                                         IF linea.concepto = "GASOIL"
                                         THEN BONIF_STAROIL_GASOIL_IVA
                                         ELSE BONIF_STAROIL_ADBLUE_IVA),
                               importe_bruto |-> importe_base,
                               descuento |-> descuento,
                               importe |-> Menos(importe_base, descuento)])])
            ELSE LeerStaroil(Tail(lineas), e)

LecturaInicial ==
    [vehiculo_actual |-> NULL, movimientos |-> <<>>, bases_imponibles |-> SinBases,
     lanza |-> FALSE]

\* parsear_staroil: the result, and whether the call raised instead of returning.
\* The dictionary is updated in place, so the lines read before an exception stay
\* in it, without summary.
parsear_staroil(lineas, resultado) ==
    LET e == LeerStaroil(lineas, LecturaInicial)
    IN [lanza |-> e.lanza,
        resultado |->
            [resultado EXCEPT
                !.movimientos = e.movimientos,
                !.resumen_vehiculos =
                    IF e.lanza THEN @ ELSE calcular_resumen_vehiculos(e.movimientos)]]

UnCentimo == Racional(1, 100)
Cien == Racional(100, 1)

\* The loop of parsear_solred. The numbers of an operation line are found with
\* the pattern digits, separator, digits, so each of them parses.
RECURSIVE LeerSolred(_, _)
LeerSolred(lineas, e) ==
    IF lineas = <<>> THEN e
    ELSE LET linea == Head(lineas)
             numeros == linea.numeros
             importe_bruto == parsear_numero_es(numeros[5])
             importe_final == parsear_numero_es(numeros[Len(numeros)])
             dto_cent_litro == IF Len(numeros) >= 7
                               THEN Entre(parsear_numero_es(numeros[6]), Cien)
                               ELSE Cero
             descuento == IF importe_bruto.n # 0 /\ importe_final.n # 0
                          THEN Menos(importe_bruto, importe_final) ELSE Cero
         IN IF linea.tipo = "vehiculo"
            THEN LeerSolred(Tail(lineas),
                     [e EXCEPT !.vehiculo_actual = normalizar_matricula(linea.matricula)])
            ELSE IF /\ linea.tipo = "operacion"
                    /\ e.vehiculo_actual # NULL
                    /\ Len(numeros) >= 5
            THEN LeerSolred(Tail(lineas),
                     [e EXCEPT !.movimientos = Append(@,
                         [vehiculo |-> e.vehiculo_actual,
                          concepto |-> linea.concepto,
                          litros |-> parsear_numero_es(numeros[1]),
                          precio_litro |->
                              Menos(parsear_numero_es(numeros[3]), dto_cent_litro),
                          importe_bruto |-> importe_bruto,
                          descuento |-> IF Menor(descuento, UnCentimo)
                                        THEN Cero ELSE descuento,
                          importe |-> importe_final])])
            ELSE LeerSolred(Tail(lineas), e)

parsear_solred(lineas, resultado) ==
    LET e == LeerSolred(lineas, LecturaInicial)
    IN [lanza |-> FALSE,
        resultado |->
            [resultado EXCEPT
                !.movimientos = e.movimientos,
                !.resumen_vehiculos = calcular_resumen_vehiculos(e.movimientos)]]

\* bases_imponibles[vehiculo] = base
ConBase(bases_imponibles, vehiculo, base) ==
    [veh \in DOMAIN bases_imponibles \cup {vehiculo} |->
        IF veh = vehiculo THEN base ELSE bases_imponibles[veh]]

\* The loop of parsear_valcarce_combustible over the lines. The amount and the
\* base of the model's lines parse; the litres may not.
RECURSIVE LeerValcarceCombustible(_, _)
LeerValcarceCombustible(lineas, e) ==
    IF lineas = <<>> THEN e
    ELSE LET linea == Head(lineas)
         IN IF linea.tipo = "vehiculo"
            THEN LeerValcarceCombustible(Tail(lineas),
                     [e EXCEPT !.vehiculo_actual = normalizar_matricula(linea.matricula)])
            ELSE IF linea.tipo = "repostaje" /\ e.vehiculo_actual # NULL
            THEN LeerValcarceCombustible(Tail(lineas),
                     [e EXCEPT !.movimientos = Append(@,
                         [vehiculo |-> e.vehiculo_actual,
                          concepto |-> "GASOIL",
                          litros |-> parsear_numero_es(linea.litros),
                          precio_litro |-> parsear_numero_es(linea.precio),
                          importe_bruto |-> parsear_numero_es(linea.importe),
                          descuento |-> Cero,
                          importe |-> Cero])])
            ELSE IF linea.tipo = "base" /\ e.vehiculo_actual # NULL
            THEN LeerValcarceCombustible(Tail(lineas),
                     [e EXCEPT !.bases_imponibles =
                         ConBase(@, e.vehiculo_actual, parsear_numero_es(linea.base))])
            ELSE LeerValcarceCombustible(Tail(lineas), e)

\* "Actualizar importes netos usando bases imponibles": the base of a vehicle
\* goes to its only line, or is shared among its lines in proportion to litres.
Prorratear(movimientos, bases_imponibles) ==
    [i \in DOMAIN movimientos |->
        LET mov == movimientos[i]
            movs_veh == DeVehiculo(movimientos, mov.vehiculo)
            total_litros == Sumar(LitrosDe(movs_veh))
            importe ==
                IF Len(movs_veh) = 1 THEN bases_imponibles[mov.vehiculo]
                ELSE Por(bases_imponibles[mov.vehiculo],
                         Entre(OCero(mov.litros), total_litros))
        IN IF \/ mov.vehiculo \notin DOMAIN bases_imponibles
              \/ Len(movs_veh) > 1 /\ ~Menor(Cero, total_litros)
           THEN mov
           ELSE [mov EXCEPT
                   !.importe = importe,
                   !.descuento = Menos(mov.importe_bruto, importe),
                   !.precio_litro =
                       IF ~mov.litros.none /\ Menor(Cero, mov.litros)
                       THEN Entre(importe, mov.litros) ELSE @]]

parsear_valcarce_combustible(lineas, resultado) ==
    LET e == LeerValcarceCombustible(lineas, LecturaInicial)
        movimientos == Prorratear(e.movimientos, e.bases_imponibles)
    IN [lanza |-> FALSE,
        resultado |->
            [resultado EXCEPT
                !.movimientos = movimientos,
                !.resumen_vehiculos = calcular_resumen_vehiculos(movimientos)]]

\* The loop of parsear_valcarce_peajes over the lines.
RECURSIVE LeerValcarcePeajes(_, _)
LeerValcarcePeajes(lineas, e) ==
    IF lineas = <<>> THEN e
    ELSE LET linea == Head(lineas)
             importe == parsear_numero_es(linea.importe)
         IN IF linea.tipo = "vehiculo"
            THEN LeerValcarcePeajes(Tail(lineas),
                     [e EXCEPT !.vehiculo_actual = normalizar_matricula(linea.matricula)])
            ELSE IF linea.tipo = "peaje" /\ e.vehiculo_actual # NULL
            THEN LeerValcarcePeajes(Tail(lineas),
                     [e EXCEPT !.movimientos = Append(@,
                         [vehiculo |-> e.vehiculo_actual,
                          concepto |-> IF ~importe.none /\ importe.n < 0
                                       THEN "BONIF_PEAJE" ELSE "PEAJE",
                          importe |-> importe])])
            ELSE IF linea.tipo = "cargo" /\ e.vehiculo_actual # NULL
            THEN LeerValcarcePeajes(Tail(lineas),
                     [e EXCEPT !.movimientos = Append(@,
                         [vehiculo |-> e.vehiculo_actual,
                          concepto |-> linea.concepto,
                          importe |-> importe])])
            ELSE IF linea.tipo = "base" /\ e.vehiculo_actual # NULL
            THEN LeerValcarcePeajes(Tail(lineas),
                     [e EXCEPT !.bases_imponibles =
                         ConBase(@, e.vehiculo_actual, parsear_numero_es(linea.base))])
            ELSE LeerValcarcePeajes(Tail(lineas), e)

parsear_valcarce_peajes(lineas, resultado) ==
    LET e == LeerValcarcePeajes(lineas, LecturaInicial)
    IN [lanza |-> FALSE,
        resultado |->
            [resultado EXCEPT
                !.movimientos = e.movimientos,
                !.resumen_vehiculos =
                    calcular_resumen_peajes(e.movimientos, e.bases_imponibles)]]

\* detectar_proveedor falling back on a provider instead of DESCONOCIDO.
detectar_proveedor_PorDefecto(palabras) ==
    IF palabras \cap {"SOLRED", "REPSOL", "WAYLET"} # {} THEN "SOLRED"
    ELSE IF "VALCARCE" \in palabras THEN "VALCARCE"
    ELSE "STAROIL"

\* detectar_proveedor: palabras holds the names found in the upper-cased text.
detectar_proveedor(palabras) ==
    IF "STAROIL" \in palabras THEN "STAROIL"
    ELSE IF palabras \cap {"SOLRED", "REPSOL", "WAYLET"} # {} THEN "SOLRED"
    ELSE IF "VALCARCE" \in palabras THEN "VALCARCE"
    ELSE "DESCONOCIDO"

\* detectar_tipo_valcarce: a toll line is what the pattern AT-... PEAJE finds.
detectar_tipo_valcarce(lineas) ==
    IF \E i \in DOMAIN lineas : lineas[i].tipo = "peaje" THEN "PEAJES"
    ELSE "COMBUSTIBLE"

ResultadoInicial ==
    [proveedor |-> "DESCONOCIDO", tipo |-> "COMBUSTIBLE", movimientos |-> <<>>,
     resumen_vehiculos |-> SinResumen, errores |-> <<>>]

\* parsear_factura_pdf with an except clause that records nothing.
ErroresSinRegistro(errores, lanza) == errores

\* except Exception as e: resultado['errores'].append(...)
ErroresDeExcepcion(errores, lanza) ==
    IF lanza THEN Append(errores, "Error al procesar PDF") ELSE errores

\* parsear_factura_pdf. factura.legible is whether pdfplumber opens the bytes.
parsear_factura_pdf(factura) ==
    LET proveedor == detectar_proveedor(factura.palabras)
        tipo == IF proveedor = "VALCARCE"
                THEN detectar_tipo_valcarce(factura.lineas) ELSE "COMBUSTIBLE"
        resultado == [ResultadoInicial EXCEPT !.proveedor = proveedor, !.tipo = tipo]
        llamada ==
            IF proveedor = "STAROIL" THEN parsear_staroil(factura.lineas, resultado)
            ELSE IF proveedor = "SOLRED" THEN parsear_solred(factura.lineas, resultado)
            ELSE IF proveedor = "VALCARCE" /\ tipo = "PEAJES"
            THEN parsear_valcarce_peajes(factura.lineas, resultado)
            ELSE IF proveedor = "VALCARCE"
            THEN parsear_valcarce_combustible(factura.lineas, resultado)
            ELSE [lanza |-> FALSE,
                  resultado |-> [resultado EXCEPT
                      !.errores = Append(@, "Proveedor no reconocido")]]
    IN IF ~factura.legible
       THEN [ResultadoInicial EXCEPT
               !.errores = ErroresDeExcepcion(@, TRUE)]
       ELSE [llamada.resultado EXCEPT
               !.errores = ErroresDeExcepcion(@, llamada.lanza)]

\* Longest invoice of the model, in recognised lines.
MaxLineas == 4

Matricula1 == <<"1", "2", "5", "7", "M", "T", "Y">>
Matricula2 == <<"9", "2", "4", "5", "M", "J", "C">>

\* The plate of a Solred line has the form 9245-MJC.
MatriculaSolred == <<"9", "2", "4", "5", "-", "M", "J", "C">>

LineaVehiculo(matricula) == [tipo |-> "vehiculo", matricula |-> matricula]
LineaRepostaje(concepto, litros, precio, importe) ==
    [tipo |-> "repostaje", concepto |-> concepto, litros |-> litros,
     precio |-> precio, importe |-> importe]

\* "12,1" is 10 plus IVA; "1,2,3" is no number; 200,00 l for 200,06.
LineasStaroil ==
    {LineaVehiculo(Matricula1), LineaVehiculo(Matricula2),
     LineaRepostaje("GASOIL", <<"2", "0", "0", ",", "0", "0">>,
                    <<"1", ",", "4", "2", "8">>, <<"2", "0", "0", ",", "0", "6">>),
     LineaRepostaje("GASOIL", <<"1", "0">>, <<"1", ",", "5">>, <<"1", "2", ",", "1">>),
     LineaRepostaje("ADBLUE", <<"2">>, <<"1", ",", "0">>, <<"2", ",", "4", "2">>),
     LineaRepostaje("GASOIL", <<"1", ",", "2", ",", "3">>, <<"1", ",", "5">>,
                    <<"1", "2", ",", "1">>)}

LineasSolred ==
    {LineaVehiculo(MatriculaSolred),
     [tipo |-> "operacion", concepto |-> "GASOIL",
      numeros |-> <<<<"1", "0", ",", "0">>, <<"1", ",", "2">>, <<"1", ",", "5">>,
                    <<"1", ",", "2">>, <<"1", "5", ",", "0">>>>],
     [tipo |-> "operacion", concepto |-> "GASOIL",
      numeros |-> <<<<"2", "0", ",", "0">>, <<"1", ",", "2">>, <<"1", ",", "5">>,
                    <<"1", ",", "2">>, <<"3", "0", ",", "0">>, <<"1", "0", ",", "0">>,
                    <<"1", "5", ",", "0">>, <<"2", "7", ",", "0">>>>],
     [tipo |-> "operacion", concepto |-> "ADBLUE",
      numeros |-> <<<<"2", ",", "0">>, <<"1", ",", "0">>>>]}

\* 2000 l at 1,00 and 1000 l at 1,30; a line of zero litres and one whose litres
\* are no number; a base of 3.000,00.
LineasValcarceCombustible ==
    {LineaVehiculo(Matricula1), LineaVehiculo(Matricula2),
     LineaRepostaje("GASOIL", <<"2", "0", "0", "0">>, <<"1", ",", "0", "0">>,
                    <<"2", "4", "2", "0">>),
     LineaRepostaje("GASOIL", <<"1", "0", "0", "0">>, <<"1", ",", "3", "0">>,
                    <<"1", "5", "7", "3">>),
     LineaRepostaje("GASOIL", <<"0">>, <<"1", ",", "0", "0">>, <<"0">>),
     LineaRepostaje("GASOIL", <<"1", ",", "2", ",", "3">>, <<"1", ",", "0", "0">>,
                    <<"1", "2", "1">>),
     [tipo |-> "base", base |-> <<"3", ".", "0", "0", "0", ",", "0", "0">>]}

LineasValcarcePeajes ==
    {LineaVehiculo(Matricula1), LineaVehiculo(Matricula2),
     [tipo |-> "peaje", importe |-> <<"4", ",", "6", "9">>],
     [tipo |-> "peaje", importe |-> <<"-", "2", ",", "0", "0">>],
     [tipo |-> "cargo", concepto |-> "COMISION", importe |-> <<"1", ",", "0", "0">>],
     [tipo |-> "base", base |-> <<"7", "8", ",", "0", "6">>]}

Factura(palabras, lineas) ==
    [legible |-> TRUE, palabras |-> palabras, lineas |-> lineas]

\* The invoices of the model: one of each provider's lines under each name the
\* provider is detected by, the same lines under no known name, and a file that
\* is no PDF.
Facturas ==
    {Factura({"STAROIL"}, l) : l \in SeqsHasta(LineasStaroil, MaxLineas)}
    \cup {Factura({"WAYLET"}, l) : l \in SeqsHasta(LineasSolred, MaxLineas)}
    \cup {Factura({"VALCARCE"}, l) :
            l \in SeqsHasta(LineasValcarceCombustible, MaxLineas)}
    \cup {Factura({"VALCARCE"}, l) : l \in SeqsHasta(LineasValcarcePeajes, MaxLineas)}
    \cup {Factura({}, l) : l \in SeqsHasta(LineasStaroil, MaxLineas)}
    \cup {[legible |-> FALSE, palabras |-> {}, lineas |-> <<>>]}

InitFacturas ==
    /\ db = init_database(BaseVacia)
    /\ origen = "nueva"
    /\ ult = SinLlamada
    /\ sesion = SesionVacia
    /\ verif = SinVerificar
    /\ cat = CatInicial
    /\ \E factura \in Facturas :
          calc = [op |-> "pendiente", entrada |-> factura, salida |-> ResultadoInicial]

Do_parsear_factura_pdf ==
    /\ calc.op = "pendiente"
    /\ calc' = [op |-> "parsear_factura_pdf", entrada |-> calc.entrada,
                salida |-> parsear_factura_pdf(calc.entrada)]
    /\ UNCHANGED <<db, origen, ult, sesion, verif, cat>>

NextFacturas == Do_parsear_factura_pdf

SpecFacturas == InitFacturas /\ [][NextFacturas]_vars

\* The lines read for one vehicle and the bases captured, as the fuel parser of
\* a Valcarce invoice had them before it shared the bases out.
LecturaValcarce == LeerValcarceCombustible(calc.entrada.lineas, LecturaInicial)

EsValcarceCombustible ==
    /\ calc.op = "parsear_factura_pdf"
    /\ calc.salida.proveedor = "VALCARCE"
    /\ calc.salida.tipo = "COMBUSTIBLE"

\* C14: in a Valcarce fuel invoice, the net amounts of the lines of a vehicle
\* that has two lines or more and a base imponible add up to that base, within
\* one cent, whatever the litres of the lines.
C14_ProrrateoConserva ==
    EsValcarceCombustible =>
        \A veh \in DOMAIN LecturaValcarce.bases_imponibles :
            LET movs == DeVehiculo(calc.salida.movimientos, veh)
                T == LecturaValcarce.bases_imponibles[veh]
                suma == Sumar([i \in DOMAIN movs |-> movs[i].importe])
            IN Len(movs) >= 2 =>
                  /\ ~Menor(UnCentimo, Menos(suma, T))
                  /\ ~Menor(UnCentimo, Menos(T, suma))

\* C14 restricted to the vehicles of which some line has litres above zero.
C14_ProrrateoConservaConLitros ==
    EsValcarceCombustible =>
        \A veh \in DOMAIN LecturaValcarce.bases_imponibles :
            LET movs == DeVehiculo(calc.salida.movimientos, veh)
                T == LecturaValcarce.bases_imponibles[veh]
                suma == Sumar([i \in DOMAIN movs |-> movs[i].importe])
            IN (Len(movs) >= 2 /\ \E i \in DOMAIN movs : Menor(Cero, OCero(movs[i].litros)))
                  => suma = T

\* A vehicle with lines of 2000 and 1000 litres and a base of 3000: the lines
\* get 2000 and 1000.
C14_Testigo ==
    /\ EsValcarceCombustible
    /\ Len(calc.salida.movimientos) = 2
    /\ calc.salida.movimientos[1].importe = Racional(2000, 1)
    /\ calc.salida.movimientos[2].importe = Racional(1000, 1)

\* The call returned the summary of fuel lines.
ResumenDeCombustible ==
    /\ calc.op = "parsear_factura_pdf"
    /\ calc.salida.tipo = "COMBUSTIBLE"

\* The lines of the vehicle are 2000 l at 1.00 and 1000 l at 1.30.
EjemploDosMilYMil(movs) ==
    /\ Len(movs) = 2
    /\ movs[1].litros = Racional(2000, 1) /\ movs[1].precio_litro = Racional(1, 1)
    /\ movs[2].litros = Racional(1000, 1) /\ movs[2].precio_litro = Racional(130, 100)

\* C15: for the fuel lines of a vehicle whose litres add up to more than zero,
\* precio_medio_litro times the litres is the sum of price times litres of the
\* lines (the average weighted by quantity); 2000 l at 1.00 and 1000 l at 1.30
\* give 1.10.
C15_PrecioMedioPonderado ==
    ResumenDeCombustible =>
        \A veh \in DOMAIN calc.salida.resumen_vehiculos :
            LET movs == DeVehiculo(calc.salida.movimientos, veh)
                litros == Sumar([i \in DOMAIN movs |-> OCero(movs[i].litros)])
                medio == calc.salida.resumen_vehiculos[veh].precio_medio_litro
            IN /\ Menor(Cero, litros) =>
                    Por(medio, litros) =
                        Sumar([i \in DOMAIN movs |->
                                 Por(OCero(movs[i].precio_litro), OCero(movs[i].litros))])
               /\ EjemploDosMilYMil(movs) => medio = Racional(110, 100)

\* C15 witness: the summary of a vehicle with the lines 2000 l at 1.00 and
\* 1000 l at 1.30, whose plain mean of prices would be 1.15.
C15_Testigo ==
    /\ ResumenDeCombustible
    /\ \E veh \in DOMAIN calc.salida.resumen_vehiculos :
          /\ EjemploDosMilYMil(DeVehiculo(calc.salida.movimientos, veh))
          /\ calc.salida.resumen_vehiculos[veh].precio_medio_litro = Racional(11, 10)

\* The bases the toll parser of a Valcarce invoice captured, by vehicle.
BasesDePeajes ==
    LeerValcarcePeajes(calc.entrada.lineas, LecturaInicial).bases_imponibles

EsValcarcePeajes ==
    /\ calc.op = "parsear_factura_pdf"
    /\ calc.salida.proveedor = "VALCARCE"
    /\ calc.salida.tipo = "PEAJES"

\* The tolls, rebates and fees of the vehicle, added up.
SumaDePeajes(veh) ==
    Sumar([i \in DOMAIN DeVehiculo(calc.salida.movimientos, veh) |->
             OCero(DeVehiculo(calc.salida.movimientos, veh)[i].importe)])

\* C16: the importe_neto of each vehicle with toll lines is the base imponible
\* captured for that vehicle, and the sum of its tolls, rebates and fees when
\* none was captured for it, whatever was captured for other vehicles.
C16_NetoPorVehiculo ==
    EsValcarcePeajes =>
        \A veh \in DOMAIN calc.salida.resumen_vehiculos :
            calc.salida.resumen_vehiculos[veh].importe_neto =
                IF veh \in DOMAIN BasesDePeajes THEN BasesDePeajes[veh]
                ELSE SumaDePeajes(veh)

\* C16 when the choice is made for the invoice: every vehicle has a base, or none.
C16_NetoPorFactura ==
    (EsValcarcePeajes
        /\ (\/ DOMAIN BasesDePeajes = {}
            \/ DOMAIN calc.salida.resumen_vehiculos \subseteq DOMAIN BasesDePeajes)) =>
        \A veh \in DOMAIN calc.salida.resumen_vehiculos :
            calc.salida.resumen_vehiculos[veh].importe_neto =
                IF veh \in DOMAIN BasesDePeajes THEN BasesDePeajes[veh]
                ELSE SumaDePeajes(veh)

\* The fuel lines of the invoice that come after a line naming a vehicle.
Repostajes ==
    {i \in DOMAIN calc.entrada.lineas :
        /\ calc.entrada.lineas[i].tipo = "repostaje"
        /\ \E j \in 1 .. (i - 1) : calc.entrada.lineas[j].tipo = "vehiculo"}

\* Those of which some numeric token is no number.
RepostajesIlegibles ==
    {i \in Repostajes :
        \/ parsear_numero_es(calc.entrada.lineas[i].litros).none
        \/ parsear_numero_es(calc.entrada.lineas[i].precio).none
        \/ parsear_numero_es(calc.entrada.lineas[i].importe).none}

EsStaroil ==
    /\ calc.op = "parsear_factura_pdf"
    /\ calc.salida.proveedor = "STAROIL"

\* C17: when a fuel line of a StarOil invoice has a token that is no number, the
\* error list is not empty and every other fuel line is among the movements and
\* counted in the summaries.
C17_ToleranciaPorLinea ==
    (EsStaroil /\ RepostajesIlegibles # {}) =>
        /\ calc.salida.errores # <<>>
        /\ Len(calc.salida.movimientos) =
               Cardinality(Repostajes \ RepostajesIlegibles)
        /\ \A i \in DOMAIN calc.salida.movimientos :
               calc.salida.movimientos[i].vehiculo
                   \in DOMAIN calc.salida.resumen_vehiculos

\* What the code does instead: the first such line ends the parse; the error is
\* recorded, the lines before it are kept, the lines after it are not read and
\* no summary is built.
C17_PrimeraIlegibleAborta ==
    (EsStaroil /\ RepostajesIlegibles # {}) =>
        /\ calc.salida.errores = <<"Error al procesar PDF">>
        /\ Len(calc.salida.movimientos) =
               Cardinality({i \in Repostajes : i < Minimo(RepostajesIlegibles)})
        /\ DOMAIN calc.salida.resumen_vehiculos = {}

\* The invoices of the model whose text holds no provider signature.
FacturasSinFirma == {f \in Facturas : f.legible /\ f.palabras = {}}

\* parsear_factura_pdf on every one of them: provider DESCONOCIDO, an error, no
\* line and no summary.
SinExtraccionParcial ==
    \A f \in FacturasSinFirma :
        /\ parsear_factura_pdf(f).proveedor = "DESCONOCIDO"
        /\ parsear_factura_pdf(f).errores # <<>>
        /\ parsear_factura_pdf(f).movimientos = <<>>
        /\ DOMAIN parsear_factura_pdf(f).resumen_vehiculos = {}

EsSinFirma(item) == item.hash = calcular_hash("facx")

MaxTokens == 6

\* TRABAJADORES
TRABAJADORES ==
    [id \in {1, 2, 3, 4, 5, 8} |->
        CASE id = 1 -> [nombre |-> "SEVERINO", vehiculo |-> "MLB"]
          [] id = 2 -> [nombre |-> "JOSE MANUEL", vehiculo |-> "LVX"]
          [] id = 3 -> [nombre |-> "CARLOS", vehiculo |-> "MJC"]
          [] id = 4 -> [nombre |-> "JESUS", vehiculo |-> "MTY"]
          [] id = 5 -> [nombre |-> "MERCEDES", vehiculo |-> "COMUN"]
          [] OTHER -> [nombre |-> "SUSANA", vehiculo |-> "COMUN"]]

\* re.findall(r'[\d.,]+', linea): the line starts with the digit of the worker,
\* which is the first token found.
TokensDeLinea(linea) == <<<<linea.id>>>> \o linea.resto

\* valores: the tokens that float() accepts and that are above zero, in order.
Valores(numeros) ==
    LET leidos == [i \in DOMAIN numeros |-> parsear_numero_es(numeros[i])]
    IN SelectSeq(leidos, LAMBDA v : ~v.none /\ Menor(Cero, v))

\* The rows of one line of the text: one row, or none.
FilasDeLinea(linea, mes) ==
    LET trabajador_id == ValorCifra(linea.id)
        valores == Valores(TokensDeLinea(linea))
    IN IF trabajador_id \notin DOMAIN TRABAJADORES \/ Len(valores) < 6 THEN <<>>
       ELSE <<[mes |-> mes,
               trabajador_id |-> trabajador_id,
               nombre |-> TRABAJADORES[trabajador_id].nombre,
               vehiculo_id |-> TRABAJADORES[trabajador_id].vehiculo,
               bruto |-> valores[1],
               ss_trabajador |-> valores[2],
               irpf |-> valores[3],
               liquido |-> valores[4],
               ss_empresa |-> valores[5],
               coste_total |-> valores[6]]>>

RECURSIVE FilasDeLineas(_, _)
FilasDeLineas(lineas, mes) ==
    IF lineas = <<>> THEN <<>>
    ELSE FilasDeLinea(Head(lineas), mes) \o FilasDeLineas(Tail(lineas), mes)

\* parsear_pdf_costes_laborales: documento.lineas are the lines of the text that
\* start with a digit and a space, documento.legible whether pdfplumber opens it.
parsear_pdf_costes_laborales(documento, filename) ==
    IF ~TieneCostMes(filename)
    THEN [resultados |-> <<>>, errores |-> <<"No se pudo extraer el mes">>,
          mes |-> NULL]
    ELSE IF ~documento.legible
    THEN [resultados |-> <<>>, errores |-> <<"Error procesando PDF">>,
          mes |-> "2024-01"]
    ELSE [resultados |-> FilasDeLineas(documento.lineas, "2024-01"),
          errores |-> <<>>, mes |-> "2024-01"]

\* Tokens of a payroll line: 10, 20, zero, and a lone comma, which is no number.
TokensNomina == {<<"1", "0">>, <<"2", "0", ",", "0", "0">>, <<"0", ",", "0", "0">>, <<",">>}

\* Worker 4 is in TRABAJADORES, worker 9 is not.
LineasNomina ==
    {[id |-> id, resto |-> resto] :
        id \in {"4", "9"}, resto \in SeqsHasta(TokensNomina, MaxTokens)}

Documentos ==
    {[legible |-> TRUE, lineas |-> <<l>>] : l \in LineasNomina}
    \cup {[legible |-> TRUE, lineas |-> <<>>], [legible |-> FALSE, lineas |-> <<>>]}

InitCostes ==
    /\ db = init_database(BaseVacia)
    /\ origen = "nueva"
    /\ ult = SinLlamada
    /\ sesion = SesionVacia
    /\ verif = SinVerificar
    /\ cat = CatInicial
    /\ \E documento \in Documentos, filename \in {"COST_202401.pdf", "f.pdf"} :
          calc = [op |-> "pendiente",
                  entrada |-> [documento |-> documento, filename |-> filename],
                  salida |-> <<>>]

Do_parsear_pdf_costes_laborales ==
    /\ calc.op = "pendiente"
    /\ calc' = [op |-> "parsear_pdf_costes_laborales", entrada |-> calc.entrada,
                salida |-> parsear_pdf_costes_laborales(calc.entrada.documento,
                                                       calc.entrada.filename)]
    /\ UNCHANGED <<db, origen, ult, sesion, verif, cat>>

NextCostes == Do_parsear_pdf_costes_laborales

SpecCostes == InitCostes /\ [][NextCostes]_vars

\* A parse of a readable one-line document under a name that carries the month.
LineaParseada ==
    /\ calc.op = "parsear_pdf_costes_laborales"
    /\ calc.entrada.documento.legible
    /\ Len(calc.entrada.documento.lineas) = 1
    /\ TieneCostMes(calc.entrada.filename)

SeisCampos(fila) ==
    <<fila.bruto, fila.ss_trabajador, fila.irpf, fila.liquido, fila.ss_empresa,
      fila.coste_total>>

\* C19: a line of a known worker gives a row exactly when six or more tokens
\* after the worker's id are numbers above zero, and the six fields of the row
\* are the first six of them, in order: the id is none of them, and a line with
\* four or five gives no row.
C19_SeisValoresTrasId ==
    LineaParseada =>
        LET linea == calc.entrada.documento.lineas[1]
            valores == Valores(linea.resto)
        IN /\ Len(calc.salida.resultados) =
                  (IF ValorCifra(linea.id) \in DOMAIN TRABAJADORES /\ Len(valores) >= 6
                   THEN 1 ELSE 0)
           /\ \A i \in DOMAIN calc.salida.resultados :
                  SeisCampos(calc.salida.resultados[i]) = SubSeq(valores, 1, 6)

\* What the code does: the worker's id is the first of the values, so five
\* numbers above zero after it are enough and bruto is the id.
C19_IdCuentaComoValor ==
    LineaParseada =>
        LET linea == calc.entrada.documento.lineas[1]
            valores == Valores(linea.resto)
        IN /\ Len(calc.salida.resultados) =
                  (IF ValorCifra(linea.id) \in DOMAIN TRABAJADORES /\ Len(valores) >= 5
                   THEN 1 ELSE 0)
           /\ \A i \in DOMAIN calc.salida.resultados :
                  SeisCampos(calc.salida.resultados[i]) =
                      <<Racional(ValorCifra(linea.id), 1)>> \o SubSeq(valores, 1, 5)

\* ------------------------------------------------------- vehicle plates

\* Longest plate token the model builds freely from its characters.
MaxMatricula == 3

CaracteresMatricula == {"L", "l", "V", "X", "M", "1", " ", "-"}

\* The tokens normalizar_matricula is applied to: every short text over these
\* characters, and the full plates of two vehicles.
TextosMatricula ==
    SeqsHasta(CaracteresMatricula, MaxMatricula)
    \cup {Matricula1, Matricula2, MatriculaSolred}

InitMatricula ==
    /\ db = init_database(BaseVacia)
    /\ origen = "nueva"
    /\ ult = SinLlamada
    /\ sesion = SesionVacia
    /\ verif = SinVerificar
    /\ cat = CatInicial
    /\ \E matricula \in TextosMatricula :
          calc = [op |-> "pendiente", entrada |-> matricula, salida |-> NULL]

Do_normalizar_matricula ==
    /\ calc.op = "pendiente"
    /\ calc' = [op |-> "normalizar_matricula", entrada |-> calc.entrada,
                salida |-> normalizar_matricula(calc.entrada)]
    /\ UNCHANGED <<db, origen, ult, sesion, verif, cat>>

NextMatricula == Do_normalizar_matricula

SpecMatricula == InitMatricula /\ [][NextMatricula]_vars

\* The token without its spaces and hyphens, in upper case.
TokenNormalizado ==
    SelectSeq(upper(calc.entrada), LAMBDA c : c \notin {" ", "-"})

\* The vehicles of the registry keys that equal the normalised token, hold it or
\* are held by it.
VehiculosAfines ==
    {MATRICULAS_VEHICULOS[i].value : i \in
        {j \in DOMAIN MATRICULAS_VEHICULOS :
            LET key == SelectSeq(MATRICULAS_VEHICULOS[j].key, LAMBDA c : c # "-")
            IN \/ EsSubcadena(key, TokenNormalizado)
               \/ EsSubcadena(TokenNormalizado, key)}}

\* C20: normalizar_matricula returns a vehicle only of a registry key that
\* equals the normalised token, holds it or is held by it, and None when there
\* is no such key; a token that is empty or holds only spaces and hyphens
\* resolves to None.
C20_NuncaAdivina ==
    calc.op = "normalizar_matricula" =>
        /\ calc.salida # NULL => calc.salida \in VehiculosAfines
        /\ VehiculosAfines = {} => calc.salida = NULL
        /\ TokenNormalizado = <<>> => calc.salida = NULL

\* C20 for the tokens that keep some character once normalised.
C20_NuncaAdivinaNoVacia ==
    (calc.op = "normalizar_matricula" /\ TokenNormalizado # <<>>) =>
        /\ calc.salida # NULL => calc.salida \in VehiculosAfines
        /\ VehiculosAfines = {} => calc.salida = NULL

\* ------------------------------------------- provider of an invoice PDF

\* The provider names either detection looks for in the upper-cased text.
Firmas == {"STAROIL", "SOLRED", "REPSOL", "WAYLET", "VALCARCE"}

\* detectar_tipo_archivo, invoice branch: the document type chosen from the
\* text, NULL when the file is rejected with 'Proveedor PDF no reconocido'.
TipoDeFactura(palabras, lineas) ==
    IF "STAROIL" \in palabras THEN "FACTURA_STAROIL"
    ELSE IF "SOLRED" \in palabras \/ "WAYLET" \in palabras THEN "FACTURA_SOLRED"
    ELSE IF "VALCARCE" \in palabras
    THEN IF detectar_tipo_valcarce(lineas) = "PEAJES"
         THEN "FACTURA_VALCARCE_PEAJES" ELSE "FACTURA_VALCARCE_COMB"
    ELSE NULL

\* The texts of the model: any set of provider names, with or without a toll
\* line.
TextosDeFactura ==
    {Factura(palabras, lineas) :
        palabras \in SUBSET Firmas,
        lineas \in {<<>>, <<[tipo |-> "peaje", importe |-> <<"4", ",", "6", "9">>]>>}}

InitProveedor ==
    /\ db = init_database(BaseVacia)
    /\ origen = "nueva"
    /\ ult = SinLlamada
    /\ sesion = SesionVacia
    /\ verif = SinVerificar
    /\ cat = CatInicial
    /\ \E factura \in TextosDeFactura :
          calc = [op |-> "pendiente", entrada |-> factura,
                  salida |-> [tipo |-> NULL, proveedor |-> NULL]]

\* detectar_tipo_archivo classifies the text, and parsear_factura_pdf, which it
\* calls on an accepted file, detects the provider again.
Do_detectar_tipo_archivo ==
    /\ calc.op = "pendiente"
    /\ calc' = [op |-> "detectar_tipo_archivo", entrada |-> calc.entrada,
                salida |-> [tipo |-> TipoDeFactura(calc.entrada.palabras,
                                                   calc.entrada.lineas),
                            proveedor |-> detectar_proveedor(calc.entrada.palabras)]]
    /\ UNCHANGED <<db, origen, ult, sesion, verif, cat>>

NextProveedor == Do_detectar_tipo_archivo

SpecProveedor == InitProveedor /\ [][NextProveedor]_vars

\* The provider a document type belongs to.
ProveedorDeTipo(tipo) ==
    CASE tipo = "FACTURA_STAROIL" -> "STAROIL"
      [] tipo = "FACTURA_SOLRED" -> "SOLRED"
      [] tipo \in {"FACTURA_VALCARCE_PEAJES", "FACTURA_VALCARCE_COMB"} -> "VALCARCE"
      [] OTHER -> "DESCONOCIDO"

\* C21: on every text the classifier of detectar_tipo_archivo and
\* detectar_proveedor choose the same provider; neither rejects a text of which
\* the other recognises the provider.
C21_MismaClasificacion ==
    calc.op = "detectar_tipo_archivo" =>
        ProveedorDeTipo(calc.salida.tipo) = calc.salida.proveedor

\* C21 for the texts that do not hold REPSOL.
C21_MismaClasificacionSinRepsol ==
    (calc.op = "detectar_tipo_archivo" /\ "REPSOL" \notin calc.entrada.palabras) =>
        ProveedorDeTipo(calc.salida.tipo) = calc.salida.proveedor

\* ------------------------------------------------ StarOil line amounts

\* The fuel line of the invoice the k-th movement was read from.
LineaDeMovimiento(k) ==
    calc.entrada.lineas[
        CHOOSE i \in Repostajes : Cardinality({j \in Repostajes : j <= i}) = k]

\* x rounded to cents, in cents.
EnCentimos(x) == (200 * x.n + x.d) \div (2 * x.d)

\* C22: each movement of a StarOil invoice has importe_bruto = G / 1.21,
\* descuento = L * (0.165 / 1.21) for gasoil and L * (0.30 / 1.21) for AdBlue, and
\* importe = importe_bruto - descuento, from the litres L and the amount G of its
\* own line; L = 200.00 and G = 200.06 give 165.34, 27.27 and 138.07.
C22_ImportesDeLinea ==
    EsStaroil =>
        \A k \in DOMAIN calc.salida.movimientos :
            LET mov == calc.salida.movimientos[k]
                L == parsear_numero_es(LineaDeMovimiento(k).litros)
                G == parsear_numero_es(LineaDeMovimiento(k).importe)
                tasa == IF LineaDeMovimiento(k).concepto = "GASOIL"
                        THEN Racional(165, 1000) ELSE Racional(30, 100)
            IN /\ Por(mov.importe_bruto, Racional(121, 100)) = G
               /\ Por(mov.descuento, Racional(121, 100)) = Por(L, tasa)
               /\ Mas(mov.importe, mov.descuento) = mov.importe_bruto
               /\ (L = Racional(200, 1) /\ G = Racional(20006, 100)
                      /\ mov.concepto = "GASOIL") =>
                     /\ EnCentimos(mov.importe_bruto) = 16534
                     /\ EnCentimos(mov.descuento) = 2727
                     /\ EnCentimos(mov.importe) = 13807

\* C22 witness: an invoice whose second movement is the gasoil line of 200.00 l
\* for 200.06, with net amount 138.07, after a movement of another line.
C22_Testigo ==
    /\ EsStaroil
    /\ Len(calc.salida.movimientos) >= 2
    /\ calc.salida.movimientos[2].litros = Racional(200, 1)
    /\ calc.salida.movimientos[1].litros # Racional(200, 1)
    /\ EnCentimos(calc.salida.movimientos[2].importe) = 13807

\* ---------------------------------------------------------- route sheets

\* Longest route sheet of the model, in recognised lines.
MaxLineasHoja == 3

\* _parsear_numero: as parsear_numero_es, with 0.0 for what is no number.
_parsear_numero(texto) == OCero(parsear_numero_es(texto))

\* int(x), for x >= 0.
ParteEntera(x) == x.n \div x.d

\* round(x, 1), for x >= 0: to the nearest tenth, an exact half going to the
\* even tenth.
RedondearDecima(x) ==
    LET abajo == (10 * x.n) \div x.d
        resto == 10 * x.n - abajo * x.d
    IN Racional(IF 2 * resto > x.d \/ (2 * resto = x.d /\ abajo % 2 = 1)
                THEN abajo + 1 ELSE abajo, 10)

\* The lines of a route sheet the parser recognises:
\*   zona   a line that holds the name of a zone, and the numbers after it
\*   total  a line "Total Viajes", "Total Repartos", "Total Kilómetros",
\*          "Media Repartos/Viaje" or "Días Trabajados", and the numbers in it

\* Step 2: the zones, the first line of each zone with three numbers or more.
RECURSIVE ExtraerZonas(_, _)
ExtraerZonas(lineas, zonas) ==
    IF lineas = <<>> THEN zonas
    ELSE LET linea == Head(lineas)
             numeros == [i \in DOMAIN linea.numeros |-> _parsear_numero(linea.numeros[i])]
         IN IF /\ linea.tipo = "zona"
               /\ Len(numeros) >= 3
               /\ \A i \in DOMAIN zonas : zonas[i].zona # linea.zona
            THEN ExtraerZonas(Tail(lineas),
                     Append(zonas, [zona |-> linea.zona,
                                    viajes |-> ParteEntera(numeros[1]),
                                    repartos |-> ParteEntera(numeros[2]),
                                    km |-> numeros[3]]))
            ELSE ExtraerZonas(Tail(lineas), zonas)

\* Step 3: the declared totals, the last number of each total line.
RECURSIVE ExtraerTotales(_, _)
ExtraerTotales(lineas, resultado) ==
    IF lineas = <<>> THEN resultado
    ELSE LET linea == Head(lineas)
             ultimo == _parsear_numero(linea.numeros[Len(linea.numeros)])
         IN IF linea.tipo # "total" \/ linea.numeros = <<>>
            THEN ExtraerTotales(Tail(lineas), resultado)
            ELSE ExtraerTotales(Tail(lineas),
                   CASE linea.campo = "total_viajes" ->
                          [resultado EXCEPT !.total_viajes = ParteEntera(ultimo)]
                     [] linea.campo = "total_repartos" ->
                          [resultado EXCEPT !.total_repartos = ParteEntera(ultimo)]
                     [] linea.campo = "total_km" ->
                          [resultado EXCEPT !.total_km = ultimo]
                     [] linea.campo = "media_repartos_viaje" ->
                          [resultado EXCEPT !.media_repartos_viaje = ultimo]
                     [] OTHER ->
                          [resultado EXCEPT !.dias_trabajados = ParteEntera(ultimo)])

RECURSIVE SumarEnteros(_)
SumarEnteros(numeros) ==
    IF numeros = <<>> THEN 0 ELSE Head(numeros) + SumarEnteros(Tail(numeros))

ViajesDe(zonas) == SumarEnteros([i \in DOMAIN zonas |-> zonas[i].viajes])
RepartosDe(zonas) == SumarEnteros([i \in DOMAIN zonas |-> zonas[i].repartos])
KmDe(zonas) == Sumar([i \in DOMAIN zonas |-> zonas[i].km])

\* Step 4 and the final validation: the error list on return.
ErroresFinales(resultado, errores) ==
    IF resultado.zonas = <<>> /\ errores = <<>>
    THEN <<"No se encontraron datos de zonas en el PDF">>
    ELSE errores

\* Step 4: totals that were not found in the text, or were found to be zero, are
\* computed from the zones.
CompletarTotales(resultado) ==
    LET zonas == resultado.zonas IN
    IF zonas = <<>> THEN resultado
    ELSE [resultado EXCEPT
            !.total_viajes = IF @ = 0 THEN ViajesDe(zonas) ELSE @,
            !.total_repartos = IF @ = 0 THEN RepartosDe(zonas) ELSE @,
            !.total_km = IF @ = Cero THEN KmDe(zonas) ELSE @,
            !.media_repartos_viaje =
                IF @ = Cero /\ ViajesDe(zonas) > 0
                THEN RedondearDecima(Racional(RepartosDe(zonas), ViajesDe(zonas)))
                ELSE @]

HojaInicial ==
    [mes |-> NULL, vehiculo_id |-> NULL, dispositivo |-> NULL, zonas |-> <<>>,
     total_viajes |-> 0, total_repartos |-> 0, total_km |-> Cero,
     media_repartos_viaje |-> Cero, dias_trabajados |-> 0]

\* DISPOSITIVOS
DISPOSITIVOS == {"MJC", "MTY", "LVX", "MLB"}

\* Step 1: month and vehicle from the header "Enero 2026 - Dispositivo MJC", or
\* from the file name when the text has no header. hoja.encabezado is the device
\* of the header, NULL when there is none; the month of the model is January 2026.
DetectarEncabezado(hoja, filename) ==
    IF hoja.encabezado # NULL
    THEN IF hoja.encabezado \in DISPOSITIVOS
         THEN [resultado |-> [HojaInicial EXCEPT !.mes = "2026-01",
                                                 !.vehiculo_id = hoja.encabezado,
                                                 !.dispositivo = hoja.encabezado],
               errores |-> <<>>]
         ELSE [resultado |-> [HojaInicial EXCEPT !.mes = "2026-01"],
               errores |-> <<"Dispositivo no reconocido">>]
    ELSE IF filename = "ENERO_2026_MJC.pdf"
    THEN [resultado |-> [HojaInicial EXCEPT !.mes = "2026-01", !.vehiculo_id = "MJC",
                                            !.dispositivo = "MJC"],
          errores |-> <<>>]
    ELSE [resultado |-> HojaInicial,
          errores |-> <<"No se pudo detectar mes y/o dispositivo">>]

\* parsear_pdf_hoja_ruta
parsear_pdf_hoja_ruta(hoja, filename) ==
    LET cabecera == DetectarEncabezado(hoja, filename)
        leido == ExtraerTotales(hoja.lineas,
                     [cabecera.resultado EXCEPT
                         !.zonas = ExtraerZonas(hoja.lineas, <<>>)])
    IN IF ~hoja.legible
       THEN [resultado |-> HojaInicial, errores |-> <<"Error al leer PDF">>]
       ELSE IF hoja.encabezado = NULL /\ hoja.lineas = <<>>
       THEN [resultado |-> HojaInicial,
             errores |-> <<"PDF vacio o sin texto extraible">>]
       ELSE [resultado |-> CompletarTotales(leido),
             errores |-> ErroresFinales(leido, cabecera.errores)]

LineaZona(zona, numeros) == [tipo |-> "zona", zona |-> zona, numeros |-> numeros]
LineaTotal(campo, numeros) == [tipo |-> "total", campo |-> campo, numeros |-> numeros]

\* Verde 10 20 100,5; Azul 5 5 50; a second Verde line; a Verde line with two
\* numbers; Total Viajes 15 and 99; Total Kilómetros 150,5.
LineasHoja ==
    {LineaZona("Verde", <<<<"1", "0">>, <<"2", "0">>, <<"1", "0", "0", ",", "5">>>>),
     LineaZona("Azul", <<<<"5">>, <<"5">>, <<"5", "0">>>>),
     LineaZona("Verde", <<<<"1">>, <<"1">>, <<"1">>>>),
     LineaZona("Verde", <<<<"1", "0">>, <<"2", "0">>>>),
     LineaTotal("total_viajes", <<<<"1", "5">>>>),
     LineaTotal("total_viajes", <<<<"9", "9">>>>),
     LineaTotal("total_km", <<<<"1", "5", "0", ",", "5">>>>)}

Hojas ==
    {[legible |-> TRUE, encabezado |-> e, lineas |-> l] :
        e \in {"MJC", "XXX", NULL}, l \in SeqsHasta(LineasHoja, MaxLineasHoja)}
    \cup {[legible |-> FALSE, encabezado |-> NULL, lineas |-> <<>>]}

InitHojas ==
    /\ db = init_database(BaseVacia)
    /\ origen = "nueva"
    /\ ult = SinLlamada
    /\ sesion = SesionVacia
    /\ verif = SinVerificar
    /\ cat = CatInicial
    /\ \E hoja \in Hojas, filename \in {"hoja.pdf", "ENERO_2026_MJC.pdf"} :
          calc = [op |-> "pendiente",
                  entrada |-> [hoja |-> hoja, filename |-> filename],
                  salida |-> [resultado |-> HojaInicial, errores |-> <<>>]]

Do_parsear_pdf_hoja_ruta ==
    /\ calc.op = "pendiente"
    /\ calc' = [op |-> "parsear_pdf_hoja_ruta", entrada |-> calc.entrada,
                salida |-> parsear_pdf_hoja_ruta(calc.entrada.hoja,
                                                 calc.entrada.filename)]
    /\ UNCHANGED <<db, origen, ult, sesion, verif, cat>>

NextHojas == Do_parsear_pdf_hoja_ruta

SpecHojas == InitHojas /\ [][NextHojas]_vars

\* The sheet declares a total of trips, deliveries or km that is not the sum of
\* its parsed zones.
TotalDistintoDeLaSuma ==
    LET r == calc.salida.resultado IN
    /\ r.zonas # <<>>
    /\ \/ r.total_viajes # ViajesDe(r.zonas)
       \/ r.total_repartos # RepartosDe(r.zonas)
       \/ Menor(UnCentimo, Menos(r.total_km, KmDe(r.zonas)))
       \/ Menor(UnCentimo, Menos(KmDe(r.zonas), r.total_km))

\* C23: when a declared total of a route sheet differs from the sum of the
\* parsed zones, the error list holds a warning, and the parsed zones are
\* returned all the same.
C23_AvisoDeDescuadre ==
    (calc.op = "parsear_pdf_hoja_ruta" /\ TotalDistintoDeLaSuma) =>
        /\ calc.salida.errores # <<>>
        /\ calc.salida.resultado.zonas =
               ExtraerZonas(calc.entrada.hoja.lineas, <<>>)

\* What the code does: a sheet with a recognised header and some zone returns
\* with no error at all, whatever totals it declares.
C23_SinComprobacion ==
    (/\ calc.op = "parsear_pdf_hoja_ruta"
     /\ calc.entrada.hoja.encabezado = "MJC"
     /\ calc.salida.resultado.zonas # <<>>) =>
        calc.salida.errores = <<>>

\* ------------------------------------------------- amounts as text and back

\* Most digits in the integer part of an amount of the model.
MaxEnteros == 4

\* A float with its sign kept apart, so that -0.0 is not 0.0.
Flotante(negativo, n, d) ==
    [none |-> FALSE, negativo |-> negativo, n |-> n \div MCD(n, d), d |-> d \div MCD(n, d)]

SinFlotante == [none |-> TRUE, negativo |-> FALSE, n |-> 0, d |-> 1]

\* str.replace for one character.
Reemplazar(texto, de, a) == [i \in DOMAIN texto |-> IF texto[i] = de THEN a ELSE texto[i]]

\* float() of a text of digits, points and a leading sign: one point at most
\* and one digit at least.
AFlotante(texto) ==
    LET negativo == texto # <<>> /\ Head(texto) = "-"
        cuerpo == IF negativo THEN Tail(texto) ELSE texto
        puntos == {i \in DOMAIN cuerpo : cuerpo[i] = "."}
        cifras == SelectSeq(cuerpo, LAMBDA c : c \in Cifras)
        decimales == IF puntos = {} THEN 0
                     ELSE Len(cuerpo) - (CHOOSE i \in puntos : TRUE)
    IN IF \/ Cardinality(puntos) > 1
          \/ cifras = <<>>
          \/ Len(cifras) + Cardinality(puntos) # Len(cuerpo)
       THEN SinFlotante
       ELSE Flotante(negativo, ValorCifras(cifras), Potencia10(decimales))

\* The parser with the thousands points left in the text.
_parsear_importe_espanol_SinMiles(valor) ==
    IF valor \in {<<>>, <<"n", "a", "n">>, <<"N", "o", "n", "e">>}
    THEN SinFlotante
    ELSE AFlotante(Reemplazar(valor, ",", "."))

\* _parsear_importe_espanol, on a text without spaces around it.
_parsear_importe_espanol(valor) ==
    IF valor \in {<<>>, <<"n", "a", "n">>, <<"N", "o", "n", "e">>}
    THEN SinFlotante
    ELSE AFlotante(Reemplazar(SelectSeq(valor, LAMBDA c : c # "."), ",", "."))

CifraDe(k) == CHOOSE c \in Cifras : ValorCifra(c) = k

RECURSIVE CifrasDe(_)
CifrasDe(n) ==
    IF n < 10 THEN <<CifraDe(n)>> ELSE Append(CifrasDe(n \div 10), CifraDe(n % 10))

\* The digits in groups of three from the right, sep between the groups.
RECURSIVE AgruparMiles(_, _)
AgruparMiles(cifras, sep) ==
    IF Len(cifras) <= 3 THEN cifras
    ELSE AgruparMiles(SubSeq(cifras, 1, Len(cifras) - 3), sep)
             \o <<sep>> \o SubSeq(cifras, Len(cifras) - 2, Len(cifras))

\* f"{val:,.2f}": two decimals, the half to the even cent, commas between the
\* thousands, the sign of the float kept also when it rounds to zero.
FormatoComaDos(val) ==
    LET abajo == (100 * val.n) \div val.d
        resto == 100 * val.n - abajo * val.d
        centimos == IF 2 * resto > val.d \/ (2 * resto = val.d /\ abajo % 2 = 1)
                    THEN abajo + 1 ELSE abajo
    IN (IF val.negativo THEN <<"-">> ELSE <<>>)
           \o AgruparMiles(CifrasDe(centimos \div 100), ",")
           \o <<".", CifraDe((centimos % 100) \div 10), CifraDe(centimos % 10)>>

\* The three replace calls and the euro sign.
AEspanol(texto) ==
    Reemplazar(Reemplazar(Reemplazar(texto, ",", "X"), ".", ","), "X", ".")

\* formato_importe_es (app.py)
formato_importe_es(valor) ==
    IF valor.none THEN <<"N", "o", "n", "e">>
    ELSE AEspanol(FormatoComaDos(valor) \o <<" ", "€">>)

\* _formato_importe (importar_todo.py)
_formato_importe(valor) ==
    IF valor.none THEN <<"-">>
    ELSE AEspanol(FormatoComaDos(valor) \o <<" ", "€">>)

\* The digits the amounts of the model are written with.
CifrasImporte == {"0", "1", "9"}

\* Integer parts: no leading zero, but "0" itself.
PartesEnteras ==
    {e \in SeqsHasta(CifrasImporte, MaxEnteros) :
        e # <<>> /\ (Len(e) > 1 => e[1] # "0")}

\* Amounts in Spanish format: "1.019,90", "-0,01".
ImportesEspanoles ==
    {signo \o AgruparMiles(e, ".") \o <<",", d1, d2>> :
        signo \in {<<>>, <<"-">>}, e \in PartesEnteras,
        d1 \in CifrasImporte, d2 \in CifrasImporte}

\* Texts that are no such amount.
OtrosTextos ==
    {<<>>, <<"n", "a", "n">>, <<"1", ",", "1", ",", "1">>,
     <<"1", "0", "1", "9", ",", "9">>}

InitImportes ==
    /\ db = init_database(BaseVacia)
    /\ origen = "nueva"
    /\ ult = SinLlamada
    /\ sesion = SesionVacia
    /\ verif = SinVerificar
    /\ cat = CatInicial
    /\ \E texto \in ImportesEspanoles \cup OtrosTextos :
          calc = [op |-> "pendiente", entrada |-> texto,
                  salida |-> [valor |-> SinFlotante, app |-> <<>>, importar_todo |-> <<>>]]

Do__parsear_importe_espanol ==
    /\ calc.op = "pendiente"
    /\ calc' = [calc EXCEPT !.op = "_parsear_importe_espanol",
                            !.salida.valor = _parsear_importe_espanol(calc.entrada)]
    /\ UNCHANGED <<db, origen, ult, sesion, verif, cat>>

Do_formato_importe_es ==
    /\ calc.op = "_parsear_importe_espanol"
    /\ calc' = [calc EXCEPT !.op = "formato_importe_es",
                            !.salida.app = formato_importe_es(calc.salida.valor),
                            !.salida.importar_todo = _formato_importe(calc.salida.valor)]
    /\ UNCHANGED <<db, origen, ult, sesion, verif, cat>>

NextImportes ==
    \/ Do__parsear_importe_espanol
    \/ Do_formato_importe_es

SpecImportes == InitImportes /\ [][NextImportes]_vars

\* C24 as stated: an amount in Spanish format, parsed and formatted, is the
\* text it was.
C24_IdaYVueltaExacta ==
    (calc.op = "formato_importe_es" /\ calc.entrada \in ImportesEspanoles) =>
        /\ calc.salida.app = calc.entrada
        /\ calc.salida.importar_todo = calc.entrada

\* C24: an amount in Spanish format, parsed and formatted by either formatter,
\* is the text it was followed by a space and the euro sign.
C24_IdaYVueltaConEuro ==
    (calc.op = "formato_importe_es" /\ calc.entrada \in ImportesEspanoles) =>
        /\ calc.salida.app = calc.entrada \o <<" ", "€">>
        /\ calc.salida.importar_todo = calc.entrada \o <<" ", "€">>

C24_Testigo ==
    /\ calc.op = "formato_importe_es"
    /\ calc.entrada = <<"-", "1", ".", "0", "1", "9", ",", "9", "0">>
    /\ calc.salida.valor = Flotante(TRUE, 10199, 10)
    /\ calc.salida.app = <<"-", "1", ".", "0", "1", "9", ",", "9", "0", " ", "€">>

\* ------------------------------------------- pagina_importar with divisions

\* Amounts of this section are in cents. The operating vehicles, COMUN left
\* out, in the order of the page.
VehiculosOps == <<"MTY", "MJC">>

\* 0.01, in cents.
ToleranciaDivision == 1

\* A bank statement as parsed, categorised and marked: a fuel payment of 10.00
\* and a customer's payment of 10.00.
FilaGasto ==
    [fecha |-> 1, descripcion |-> "A", importe |-> -1000, categoria_id |-> "COMB",
     vehiculo_id |-> NULL]

FilaIngreso ==
    [fecha |-> 1, descripcion |-> "B", importe |-> 1000, categoria_id |-> "INGRESO",
     vehiculo_id |-> NULL]

Extractos == {<<FilaGasto>>, <<FilaIngreso>>, <<FilaGasto, FilaIngreso>>}

\* What the user may type for one vehicle; 0 is the empty input.
PartesDivision == {-500, -499, 0, 500, 1000}

PaginaVacia == [op |-> "pagina_importar", df |-> <<>>, movimientos_split |-> <<>>]

RECURSIVE SumaImportes(_)
SumaImportes(partes) ==
    IF partes = <<>> THEN 0 ELSE Head(partes).importe + SumaImportes(Tail(partes))

\* nuevos_splits: one part per vehicle with an amount other than 0.
nuevos_splits(splits_actuales, categoria_mov) ==
    LET partes == [v \in DOMAIN VehiculosOps |->
                      [vehiculo |-> VehiculosOps[v],
                       importe |-> splits_actuales[v],
                       categoria |-> categoria_mov]]
    IN SelectSeq(partes, LAMBDA parte : parte.importe # 0)

\* The movements of "Guardar Importacion", from row idx on.
RECURSIVE movimientos_finales(_, _, _)
movimientos_finales(df, movimientos_split, idx) ==
    IF idx > Len(df) THEN <<>>
    ELSE LET row == df[idx]
             split == movimientos_split[idx]
         IN (IF split # <<>>
             THEN [k \in DOMAIN split |->
                      [fecha |-> row.fecha, descripcion |-> row.descripcion,
                       importe |-> split[k].importe,
                       categoria_id |-> split[k].categoria,
                       vehiculo_id |-> split[k].vehiculo]]
             ELSE <<row>>)
            \o movimientos_finales(df, movimientos_split, idx + 1)

InitDivision ==
    /\ db = init_database(BaseVacia)
    /\ origen = "nueva"
    /\ ult = SinLlamada
    /\ sesion = SesionVacia
    /\ verif = SinVerificar
    /\ cat = CatInicial
    /\ calc = PaginaVacia

\* A file is in the uploader and no statement is loaded: it is parsed and the
\* divisions are reset.
Do_cargar_extracto ==
    /\ calc.df = <<>>
    /\ \E df \in Extractos :
          calc' = [op |-> "pagina_importar", df |-> df,
                   movimientos_split |-> [idx \in DOMAIN df |-> <<>>]]
    /\ UNCHANGED <<db, origen, ult, sesion, verif, cat>>

\* The vehicle selector of a row that is not divided.
Do_asignar_vehiculo ==
    /\ \E idx \in DOMAIN calc.df, vehiculo \in {NULL, "MTY", "MJC"} :
          /\ calc.movimientos_split[idx] = <<>>
          /\ calc.df[idx].vehiculo_id # vehiculo
          /\ calc' = [calc EXCEPT !.df[idx].vehiculo_id = vehiculo]
    /\ UNCHANGED <<db, origen, ult, sesion, verif, cat>>

\* "Aplicar division": refused when the parts differ from the total by more
\* than 0.01.
Do_aplicar_division ==
    /\ \E idx \in DOMAIN calc.df,
          splits_actuales \in [DOMAIN VehiculosOps -> PartesDivision] :
          LET importe_total == calc.df[idx].importe
              partes == nuevos_splits(splits_actuales, calc.df[idx].categoria_id)
              diferencia == importe_total - SumaImportes(partes)
          IN /\ Abs(diferencia) <= ToleranciaDivision
             /\ partes # calc.movimientos_split[idx]
             /\ calc' = [calc EXCEPT !.movimientos_split[idx] = partes]
    /\ UNCHANGED <<db, origen, ult, sesion, verif, cat>>

\* "Quitar division"
Do_quitar_division ==
    /\ \E idx \in DOMAIN calc.df :
          /\ calc.movimientos_split[idx] # <<>>
          /\ calc' = [calc EXCEPT !.movimientos_split[idx] = <<>>]
    /\ UNCHANGED <<db, origen, ult, sesion, verif, cat>>

\* "Guardar Importacion": refused while an expense has no vehicle.
Do_guardar_importacion ==
    LET finales == movimientos_finales(calc.df, calc.movimientos_split, 1)
        r == insertar_movimientos(db, finales, "extracto.csv", NULL, NULL)
    IN /\ calc.df # <<>>
       /\ gastos_sin_vehiculo(finales) = {}
       /\ db.seq_importaciones < MaxImportaciones
       /\ db' = r.db
       /\ ult' = Registro("insertar_movimientos", finales, r.insertados,
                          r.duplicados, 0)
       /\ calc' = PaginaVacia
       /\ UNCHANGED <<origen, sesion, verif, cat>>

NextDivision ==
    \/ Do_cargar_extracto
    \/ Do_asignar_vehiculo
    \/ Do_aplicar_division
    \/ Do_quitar_division
    \/ Do_guardar_importacion

SpecDivision == InitDivision /\ [][NextDivision]_vars

\* The rows a save has written for row idx of the statement.
FilasGuardadas(idx) ==
    {r \in db'.movimientos \ db.movimientos :
        r.fecha = calc.df[idx].fecha /\ r.descripcion = calc.df[idx].descripcion}

RECURSIVE SumaDeFilas(_)
SumaDeFilas(filas) ==
    IF filas = {} THEN 0
    ELSE LET r == CHOOSE x \in filas : TRUE
         IN r.importe + SumaDeFilas(filas \ {r})

\* Row idx is divided and the ledger holds no row of its date and description.
DivididaYNueva(idx) ==
    /\ calc.movimientos_split[idx] # <<>>
    /\ \A r \in db.movimientos :
          ~(r.fecha = calc.df[idx].fecha /\ r.descripcion = calc.df[idx].descripcion)

\* C25: a save writes every part of a divided movement that is new to the
\* ledger as a row of its own, and the rows written for it sum to the original
\* amount within 0.01.
C25_DivisionConservada ==
    [][(calc.df # <<>> /\ calc'.df = <<>>) =>
          \A idx \in DOMAIN calc.df :
              DivididaYNueva(idx) =>
                  /\ Cardinality(FilasGuardadas(idx)) = Len(calc.movimientos_split[idx])
                  /\ Abs(calc.df[idx].importe - SumaDeFilas(FilasGuardadas(idx)))
                        <= ToleranciaDivision]_vars

\* What the code does: the parts of different amounts are all written.
C25_PartesDistintasConservadas ==
    [][(calc.df # <<>> /\ calc'.df = <<>>) =>
          \A idx \in DOMAIN calc.df :
              (/\ DivididaYNueva(idx)
               /\ \A j, k \in DOMAIN calc.movimientos_split[idx] :
                     j # k => calc.movimientos_split[idx][j].importe
                                 # calc.movimientos_split[idx][k].importe) =>
                  /\ Cardinality(FilasGuardadas(idx)) = Len(calc.movimientos_split[idx])
                  /\ Abs(calc.df[idx].importe - SumaDeFilas(FilasGuardadas(idx)))
                        <= ToleranciaDivision]_vars

\* ------------------------------------- the movements of one parsed invoice

\* f"{x:.0f}", for x >= 0: the nearest integer, a half going to the even one.
SinDecimales(x) ==
    LET abajo == x.n \div x.d
        resto == x.n - abajo * x.d
    IN IF 2 * resto > x.d \/ (2 * resto = x.d /\ abajo % 2 = 1)
       THEN abajo + 1 ELSE abajo

\* The vehicles of the summary, in the order their first lines were read.
RECURSIVE VehiculosEnOrden(_, _)
VehiculosEnOrden(movimientos, vistos) ==
    IF movimientos = <<>> THEN vistos
    ELSE VehiculosEnOrden(Tail(movimientos),
             IF \E i \in DOMAIN vistos : vistos[i] = Head(movimientos).vehiculo
             THEN vistos ELSE Append(vistos, Head(movimientos).vehiculo))

\* The description of a movement, as the parts the f-string puts together;
\* litros_adblue is NULL when the " + ...L AdBlue" part is left out. Provider and
\* invoice number are those of the invoice.
DescripcionCombustible(proveedor, datos) ==
    [proveedor |-> proveedor,
     litros_gasoil |-> SinDecimales(datos.litros_gasoil),
     litros_adblue |-> IF Menor(Cero, datos.litros_adblue)
                       THEN SinDecimales(datos.litros_adblue) ELSE 0 - 1,
     usos |-> datos.num_repostajes]

DescripcionPeajes(proveedor, datos) ==
    [proveedor |-> proveedor, litros_gasoil |-> 0 - 1, litros_adblue |-> 0 - 1,
     usos |-> datos.num_peajes]

\* generar_movimientos_para_db on the result of parsear_factura_pdf: one movement
\* per vehicle of the summary whose net amount is positive. The date is that of
\* the invoice, the same for all its movements.
MovimientosDeFactura(resultado) ==
    LET vehiculos == SelectSeq(VehiculosEnOrden(resultado.movimientos, <<>>),
                         LAMBDA veh :
                            /\ veh \in DOMAIN resultado.resumen_vehiculos
                            /\ Menor(Cero, resultado.resumen_vehiculos[veh].importe_neto))
    IN [k \in DOMAIN vehiculos |->
           LET datos == resultado.resumen_vehiculos[vehiculos[k]] IN
           [fecha |-> 2,
            descripcion |-> IF resultado.tipo = "PEAJES"
                            THEN DescripcionPeajes(resultado.proveedor, datos)
                            ELSE DescripcionCombustible(resultado.proveedor, datos),
            importe |-> Menos(Cero, datos.importe_neto),
            categoria_id |-> IF resultado.tipo = "PEAJES" THEN "PEAJ" ELSE "COMB",
            vehiculo_id |-> vehiculos[k]]]

\* An invoice with a summary is turned into movements.
Do_generar_movimientos_para_db ==
    /\ calc.op = "parsear_factura_pdf"
    /\ DOMAIN calc.salida.resumen_vehiculos # {}
    /\ calc' = [op |-> "generar_movimientos_para_db", entrada |-> calc.salida,
                salida |-> MovimientosDeFactura(calc.salida)]
    /\ UNCHANGED <<db, origen, ult, sesion, verif, cat>>

\* The movements, if any, are saved.
Do_insertar_movimientos_de_factura ==
    /\ calc.op = "generar_movimientos_para_db"
    /\ calc.salida # <<>>
    /\ LET r == insertar_movimientos(db, calc.salida, "factura.pdf", NULL, NULL) IN
          /\ db' = r.db
          /\ ult' = Registro("insertar_movimientos", calc.salida, r.insertados,
                             r.duplicados, 0)
    /\ calc' = [calc EXCEPT !.op = "insertar_movimientos"]
    /\ UNCHANGED <<origen, sesion, verif, cat>>

NextMovimientosDb ==
    \/ Do_parsear_factura_pdf
    \/ Do_generar_movimientos_para_db
    \/ Do_insertar_movimientos_de_factura

SpecMovimientosDb == InitFacturas /\ [][NextMovimientosDb]_vars

\* C26: the movements of one invoice have pairwise different (fecha,
\* descripcion, importe), and the first import into an empty ledger writes one
\* row for each of them.
C26_SinColisionEnFactura ==
    /\ calc.op \in {"generar_movimientos_para_db", "insertar_movimientos"} =>
          \A i, j \in DOMAIN calc.salida :
              i # j => Clave(calc.salida[i]) # Clave(calc.salida[j])
    /\ calc.op = "insertar_movimientos" =>
          /\ Cardinality(db.movimientos) = Len(calc.salida)
          /\ ult.duplicados = 0

\* What the code does: one movement per vehicle with a positive net amount,
\* negative, of category COMB or PEAJ; one row is written per different key.
C26_UnoPorVehiculo ==
    /\ calc.op \in {"generar_movimientos_para_db", "insertar_movimientos"} =>
          /\ {calc.salida[i].vehiculo_id : i \in DOMAIN calc.salida} =
                {veh \in DOMAIN calc.entrada.resumen_vehiculos :
                    Menor(Cero, calc.entrada.resumen_vehiculos[veh].importe_neto)}
          /\ \A i, j \in DOMAIN calc.salida :
                i # j => calc.salida[i].vehiculo_id # calc.salida[j].vehiculo_id
          /\ \A i \in DOMAIN calc.salida :
                /\ Menor(calc.salida[i].importe, Cero)
                /\ calc.salida[i].categoria_id \in {"COMB", "PEAJ"}
    /\ calc.op = "insertar_movimientos" =>
          Cardinality(db.movimientos) = Cardinality({Clave(calc.salida[i]) : i \in DOMAIN calc.salida})

\* --------------------------------------------------- the table hojas_ruta

\* Calls of insertar_hoja_ruta the model lets happen.
MaxHojas == 3

\* INSERT OR REPLACE INTO hojas_ruta under UNIQUE(mes, vehiculo_id, zona): the
\* row of that key, if any, is deleted and the new row gets a fresh id.
\* st = [filas, seq].
InsertOrReplaceHoja(st, fila) ==
    [filas |-> {r \in st.filas : ~(/\ r.mes = fila.mes
                                   /\ r.vehiculo_id = fila.vehiculo_id
                                   /\ r.zona = fila.zona)}
               \cup {[id |-> st.seq + 1] @@ fila},
     seq |-> st.seq + 1]

FilaDeZona(datos, zona) ==
    [mes |-> datos.mes, vehiculo_id |-> datos.vehiculo_id, zona |-> zona.zona,
     viajes |-> zona.viajes, repartos |-> zona.repartos, km |-> zona.km,
     media_repartos_viaje |-> datos.media_repartos_viaje,
     dias_trabajados |-> datos.dias_trabajados]

FilaTotal(datos) ==
    [mes |-> datos.mes, vehiculo_id |-> datos.vehiculo_id, zona |-> "TOTAL",
     viajes |-> datos.total_viajes, repartos |-> datos.total_repartos,
     km |-> datos.total_km,
     media_repartos_viaje |-> datos.media_repartos_viaje,
     dias_trabajados |-> datos.dias_trabajados]

\* for zona in datos.get('zonas', [])
RECURSIVE BucleZonas(_, _, _)
BucleZonas(datos, i, st) ==
    IF i > Len(datos.zonas) THEN st
    ELSE BucleZonas(datos, i + 1, InsertOrReplaceHoja(st, FilaDeZona(datos, datos.zonas[i])))

\* insertar_hoja_ruta: the zones, then the TOTAL row, in one transaction.
insertar_hoja_ruta(d, datos) ==
    LET zonas == BucleZonas(datos, 1, [filas |-> d.hojas_ruta, seq |-> d.seq_hojas])
        fin == InsertOrReplaceHoja(zonas, FilaTotal(datos))
    IN [d EXCEPT !.hojas_ruta = fin.filas, !.seq_hojas = fin.seq]

\* Zone rows as the parser gives them (km in whole km).
ZonasDeHoja ==
    {[zona |-> "Verde", viajes |-> 1, repartos |-> 2, km |-> 10],
     [zona |-> "Verde", viajes |-> 2, repartos |-> 2, km |-> 20],
     [zona |-> "Azul", viajes |-> 1, repartos |-> 1, km |-> 10]}

\* Route sheets: no zone twice; the totals are the declared ones (99 trips) or
\* the sums of the zones.
DatosDeHoja ==
    {[mes |-> "2026-01", vehiculo_id |-> veh, zonas |-> zonas,
      total_viajes |-> IF declarado THEN 99 ELSE ViajesDe(zonas),
      total_repartos |-> RepartosDe(zonas),
      total_km |-> SumarEnteros([i \in DOMAIN zonas |-> zonas[i].km]),
      media_repartos_viaje |-> 1, dias_trabajados |-> 20] :
        veh \in {"MJC", "MTY"}, declarado \in BOOLEAN,
        zonas \in {z \in SeqsHasta(ZonasDeHoja, 2) :
                      \A i, j \in DOMAIN z : i # j => z[i].zona # z[j].zona}}

SinHoja == [mes |-> NULL]

\* calc.ultimas: for each vehicle, the sheet of the most recent call for it
\* (the month of the model is one).
InitHojasRuta ==
    /\ db = init_database(BaseVacia)
    /\ origen = "nueva"
    /\ ult = SinLlamada
    /\ sesion = SesionVacia
    /\ verif = SinVerificar
    /\ cat = CatInicial
    /\ calc = [op |-> "pendiente", llamadas |-> 0,
               ultimas |-> [veh \in {"MJC", "MTY"} |-> SinHoja]]

Do_insertar_hoja_ruta ==
    /\ calc.llamadas < MaxHojas
    /\ \E datos \in DatosDeHoja :
          /\ db' = insertar_hoja_ruta(db, datos)
          /\ calc' = [op |-> "insertar_hoja_ruta", llamadas |-> calc.llamadas + 1,
                      ultimas |-> [calc.ultimas EXCEPT ![datos.vehiculo_id] = datos]]
    /\ UNCHANGED <<origen, ult, sesion, verif, cat>>

NextHojasRuta == Do_insertar_hoja_ruta

SpecHojasRuta == InitHojasRuta /\ [][NextHojasRuta]_vars

SinId(r) == [k \in DOMAIN r \ {"id"} |-> r[k]]

\* The stored rows of a vehicle, ids aside.
FilasDeVehiculo(veh) == {SinId(r) : r \in {x \in db.hojas_ruta : x.vehiculo_id = veh}}

FilasDeHoja(datos) ==
    {FilaDeZona(datos, datos.zonas[i]) : i \in DOMAIN datos.zonas} \cup {FilaTotal(datos)}

\* C27: for each month and vehicle the stored rows are the zones of the most
\* recent call and its TOTAL row, and nothing else.
C27_ReimportacionReemplaza ==
    \A veh \in DOMAIN calc.ultimas :
        IF calc.ultimas[veh] = SinHoja
        THEN FilasDeVehiculo(veh) = {}
        ELSE FilasDeVehiculo(veh) = FilasDeHoja(calc.ultimas[veh])

\* What the code does: one row per (mes, vehiculo_id, zona); the rows of the
\* most recent call are stored with its values; a zone the most recent call
\* does not hold keeps the row an earlier call wrote.
C27_ReemplazaPorZona ==
    /\ [](\A r1, r2 \in db.hojas_ruta :
            (r1.mes = r2.mes /\ r1.vehiculo_id = r2.vehiculo_id /\ r1.zona = r2.zona)
                => r1 = r2)
    /\ [](\A veh \in DOMAIN calc.ultimas :
            IF calc.ultimas[veh] = SinHoja
            THEN FilasDeVehiculo(veh) = {}
            ELSE FilasDeHoja(calc.ultimas[veh]) \subseteq FilasDeVehiculo(veh))
    /\ [][\A r \in db.hojas_ruta :
             r \in db'.hojas_ruta
             \/ \E n \in db'.hojas_ruta \ db.hojas_ruta :
                   n.mes = r.mes /\ n.vehiculo_id = r.vehiculo_id /\ n.zona = r.zona]_vars

\* --------------------------------------------- the table costes_laborales

\* Calls of insertar_costes_laborales_batch the model lets happen.
MaxLotes == 3

\* Payroll rows: worker 1 in two months and with two amounts, worker 2.
CostesDeNomina ==
    {[mes |-> "2024-01", trabajador_id |-> 1, coste_total |-> 100],
     [mes |-> "2024-01", trabajador_id |-> 1, coste_total |-> 200],
     [mes |-> "2024-01", trabajador_id |-> 2, coste_total |-> 100],
     [mes |-> "2024-02", trabajador_id |-> 1, coste_total |-> 100]}

LotesDeCostes == SeqsHasta(CostesDeNomina, 2)

ClaveCoste(c) == <<c.mes, c.trabajador_id>>

ClavesCoste == {ClaveCoste(c) : c \in CostesDeNomina}

\* The last write of each key after the batch, from position i on.
RECURSIVE UltimasEscrituras(_, _, _)
UltimasEscrituras(costes, i, ultimas) ==
    IF i > Len(costes) THEN ultimas
    ELSE UltimasEscrituras(costes, i + 1,
             [ultimas EXCEPT ![ClaveCoste(costes[i])] = costes[i].coste_total])

\* calc: the batch of the last call, whether it was the batch of the call
\* before it, and the last amount written for each key (0: never written).
InitCostesDb ==
    /\ db = init_database(BaseVacia)
    /\ origen = "nueva"
    /\ ult = SinLlamada
    /\ sesion = SesionVacia
    /\ verif = SinVerificar
    /\ cat = CatInicial
    /\ calc = [op |-> "pendiente", llamadas |-> 0, costes |-> <<>>, repite |-> FALSE,
               ultimas |-> [k \in ClavesCoste |-> 0]]

Do_insertar_costes_laborales_batch ==
    /\ calc.llamadas < MaxLotes
    /\ \E costes \in LotesDeCostes :
          /\ db' = insertar_costes_laborales_batch(db, costes).db
          /\ calc' = [op |-> "insertar_costes_laborales_batch",
                      llamadas |-> calc.llamadas + 1,
                      costes |-> costes,
                      repite |-> (calc.llamadas > 0 /\ calc.costes = costes),
                      ultimas |-> UltimasEscrituras(costes, 1, calc.ultimas)]
    /\ UNCHANGED <<origen, ult, sesion, verif, cat>>

NextCostesDb == Do_insertar_costes_laborales_batch

SpecCostesDb == InitCostesDb /\ [][NextCostesDb]_vars

ContenidoDeCostes(filas) ==
    {[mes |-> r.mes, trabajador_id |-> r.trabajador_id, coste_total |-> r.coste_total] :
        r \in filas}

C29_MarcoDeEliminarImportacion ==
    [][ult'.op = "eliminar_importacion" =>
          \E i \in db.importaciones :
              /\ db'.importaciones = {o \in db.importaciones : o.id # i.id}
              /\ db'.importaciones = db.importaciones \ {i}
              /\ db'.movimientos = {r \in db.movimientos : r.importacion_id # i.id}
              /\ \A r \in db'.movimientos : r.importacion_id # i.id
              /\ \A r \in db.movimientos :
                    r.importacion_id # i.id => r \in db'.movimientos
              /\ db'.costes_laborales = db.costes_laborales
              /\ db'.hojas_ruta = db.hojas_ruta]_vars

\* Import 1 was deleted with its movement; import 2 and its movement are there.
C29_Testigo ==
    /\ ult.op = "eliminar_importacion"
    /\ db.seq_importaciones = 2
    /\ db.seq_movimientos = 2
    /\ {i.id : i \in db.importaciones} = {2}
    /\ {<<r.id, r.importacion_id>> : r \in db.movimientos} = {<<2, 2>>}

\* ------------------------------------------ payroll files by their name

\* Longest run of separators between COST and the month in a name of the model.
MaxSeparadores == 2

\* str.upper() and str.lower() on the letters of the names of the model.
MayusculaDeNombre(c) ==
    CASE c = "c" -> "C" [] c = "o" -> "O" [] c = "s" -> "S" [] c = "t" -> "T"
      [] c = "p" -> "P" [] c = "d" -> "D" [] c = "f" -> "F" [] c = "v" -> "V"
      [] OTHER -> c

MinusculaDeNombre(c) ==
    CASE c = "C" -> "c" [] c = "O" -> "o" [] c = "S" -> "s" [] c = "T" -> "t"
      [] c = "P" -> "p" [] c = "D" -> "d" [] c = "F" -> "f" [] c = "V" -> "v"
      [] OTHER -> c

NombreUpper(nombre) == [i \in DOMAIN nombre |-> MayusculaDeNombre(nombre[i])]
NombreLower(nombre) == [i \in DOMAIN nombre |-> MinusculaDeNombre(nombre[i])]

TerminaEn(nombre, sufijo) ==
    /\ Len(nombre) >= Len(sufijo)
    /\ SubSeq(nombre, Len(nombre) - Len(sufijo) + 1, Len(nombre)) = sufijo

\* re.search(r'COST', texto)
ContieneCost(texto) ==
    \E p \in 1 .. Len(texto) - 3 : SubSeq(texto, p, p + 3) = <<"C", "O", "S", "T">>

\* The matches of r'COST[\s_-]+(\d{6})' in texto, as <<position of COST,
\* position of the first digit>>.
CoincidenciasCostMes(texto) ==
    {<<p, q>> \in (1 .. Len(texto)) \X (1 .. Len(texto)) :
        /\ q >= p + 5
        /\ q + 5 <= Len(texto)
        /\ SubSeq(texto, p, p + 3) = <<"C", "O", "S", "T">>
        /\ \A k \in p + 4 .. q - 1 : texto[k] \in {" ", "_", "-"}
        /\ \A k \in q .. q + 5 : texto[k] \in Cifras}

\* re.search(r'COST[\s_-]+(\d{6})', texto): group 1 of the leftmost match,
\* <<>> when there is none.
BuscarCostMes(texto) ==
    IF CoincidenciasCostMes(texto) = {} THEN <<>>
    ELSE LET m == CHOOSE x \in CoincidenciasCostMes(texto) :
                     \A y \in CoincidenciasCostMes(texto) : x[1] <= y[1]
         IN SubSeq(texto, m[2], m[2] + 5)

\* parsear_pdf_costes_laborales, the month out of the file name: "YYYY-MM", or
\* the error and None. The PDF itself is taken to be a readable payroll summary.
MesDelNombre(filename) ==
    LET year_month == BuscarCostMes(filename) IN
    IF year_month # <<>>
    THEN [errores |-> <<>>,
          mes |-> SubSeq(year_month, 1, 4) \o <<"-">> \o SubSeq(year_month, 5, 6)]
    ELSE [errores |-> <<"No se pudo extraer el mes del nombre del archivo">>,
          mes |-> <<>>]

\* detectar_tipo_archivo, up to the payroll branch: a PDF whose name in upper
\* case holds COST, separators and six digits is handed to the payroll parser
\* under its own name.
TipoPorNombre(nombre) ==
    LET nombre_upper == NombreUpper(nombre)
        costes == MesDelNombre(nombre)
    IN IF /\ TerminaEn(NombreLower(nombre), <<".", "p", "d", "f">>)
          /\ ContieneCost(nombre_upper)
          /\ BuscarCostMes(nombre_upper) # <<>>
       THEN [tipo |-> "COSTES_LABORALES", mes_detectado |-> costes.mes,
             error |-> costes.errores # <<>>]
       ELSE [tipo |-> "OTRO", mes_detectado |-> <<>>, error |-> FALSE]

SeparadoresDeNombre == SeqsHasta({"_", "-", " ", "."}, MaxSeparadores)

\* File names: COST in some letter case, separators, five or six digits, a rest
\* and an extension.
NombresDeArchivo ==
    {cost \o sep \o mes \o resto \o ext :
        cost \in {<<"C", "O", "S", "T">>, <<"c", "o", "s", "t">>,
                  <<"C", "o", "s", "t">>, <<"C", "O", "S">>},
        sep \in SeparadoresDeNombre,
        mes \in {<<"2", "0", "2", "4", "0", "1">>, <<"2", "0", "2", "4", "0">>},
        resto \in {<<>>, <<"_", "6", "5">>},
        ext \in {<<".", "p", "d", "f">>, <<".", "P", "D", "F">>, <<".", "c", "s", "v">>}}

InitNombre ==
    /\ db = init_database(BaseVacia)
    /\ origen = "nueva"
    /\ ult = SinLlamada
    /\ sesion = SesionVacia
    /\ verif = SinVerificar
    /\ cat = CatInicial
    /\ \E nombre \in NombresDeArchivo :
          calc = [op |-> "pendiente", entrada |-> nombre,
                  salida |-> [tipo |-> NULL, mes_detectado |-> <<>>, error |-> FALSE]]

Do_detectar_tipo_por_nombre ==
    /\ calc.op = "pendiente"
    /\ calc' = [op |-> "detectar_tipo_archivo", entrada |-> calc.entrada,
                salida |-> TipoPorNombre(calc.entrada)]
    /\ UNCHANGED <<db, origen, ult, sesion, verif, cat>>

NextNombre == Do_detectar_tipo_por_nombre

SpecNombre == InitNombre /\ [][NextNombre]_vars

\* C30: a PDF is classified as COSTES_LABORALES exactly when the payroll parser
\* finds the month after COST in its name, and a file classified as payroll
\* has no error for lack of the month.
C30_ClasificadorYParserDeAcuerdo ==
    (calc.op = "detectar_tipo_archivo"
        /\ TerminaEn(NombreLower(calc.entrada), <<".", "p", "d", "f">>)) =>
        /\ (calc.salida.tipo = "COSTES_LABORALES")
              <=> (MesDelNombre(calc.entrada).errores = <<>>)
        /\ calc.salida.tipo = "COSTES_LABORALES" =>
              (~calc.salida.error /\ calc.salida.mes_detectado # <<>>)

\* What the code does: the two agree on the names that hold COST in capitals.
C30_DeAcuerdoEnMayusculas ==
    (calc.op = "detectar_tipo_archivo"
        /\ TerminaEn(NombreLower(calc.entrada), <<".", "p", "d", "f">>)
        /\ (ContieneCost(calc.entrada) \/ ~ContieneCost(NombreUpper(calc.entrada)))) =>
        /\ (calc.salida.tipo = "COSTES_LABORALES")
              <=> (MesDelNombre(calc.entrada).errores = <<>>)
        /\ calc.salida.tipo = "COSTES_LABORALES" =>
              (~calc.salida.error /\ calc.salida.mes_detectado # <<>>)

====
